---- MODULE Spec2Model ----
(***************************************************************************)
(* The charm store request router (internal/router/router.go): identifier  *)
(* rooted dispatch, the metadata batching engine (GetMetadata) and the     *)
(* bulk multi-id metadata endpoint.                                        *)
(*                                                                         *)
(* Go strings are modelled as sequences of one-character strings, so that  *)
(* splitPath, handlerKey and splitId work on characters and byte indices   *)
(* exactly as the code does.  Go indices are 0-based: path[i:j] is         *)
(* SubSeq(path, i + 1, j).                                                 *)
(***************************************************************************)
EXTENDS Integers, Sequences, FiniteSets, TLC

VARIABLES
    handlers,   \* r.handlers: the Handlers the router was created with
    phase,      \* "idle": waiting for a request; "done": a request was served
    req,        \* the request being served
    oracle,     \* what the collaborators (resolveURL, the handlers) answer
    resp,       \* the outcome of the request: the error and the body
    calls,      \* the invocations of BulkIncludeHandler.Handle, in order
    resolved,   \* the invocations of resolveURL, in order
    idCalls     \* the invocations of IdHandler functions, in order

vars == <<handlers, phase, req, oracle, resp, calls, resolved, idCalls>>

----------------------------------------------------------------------------
(* Bounds of the model.                                                    *)

\* The longest include list of a request.
MaxIncludes == 3

\* The longest id list of a bulk request.
MaxIds == 2

\* The number of collaborator answers of one request that deviate from
\* "resolves, has data, succeeds".
MaxFaults == 1

\* The longest path, in characters, the path functions are applied to.
MaxPathLen == 5

\* The most elements of a path that splitId is applied to.
MaxElems == 3

----------------------------------------------------------------------------
(* Strings.                                                                *)

Slash == "/"

\* s[i:] with a 0-based Go index
From(s, i) == SubSeq(s, i + 1, Len(s))

\* s[i:j] with 0-based Go indices
Slice(s, i, j) == SubSeq(s, i + 1, j)

\* strings.HasPrefix
HasPrefix(s, p) == Len(s) >= Len(p) /\ SubSeq(s, 1, Len(p)) = p

\* strings.HasSuffix
HasSuffix(s, p) == Len(s) >= Len(p) /\ SubSeq(s, Len(s) - Len(p) + 1, Len(s)) = p

\* strings.TrimPrefix
TrimPrefix(s, p) == IF HasPrefix(s, p) THEN From(s, Len(p)) ELSE s

\* strings.TrimSuffix
TrimSuffix(s, p) == IF HasSuffix(s, p) THEN SubSeq(s, 1, Len(s) - Len(p)) ELSE s

\* strings.Index(s, c) for a one-character c: the 0-based index of the first
\* c in s, or -1
IndexByte(s, c) ==
    IF \E k \in 1..Len(s) : s[k] = c
    THEN (CHOOSE k \in 1..Len(s) : s[k] = c /\ \A m \in 1..(k - 1) : s[m] # c) - 1
    ELSE -1

\* The strings the registries and the requests are made of.
S_empty == << >>
S_size == <<"s", "i", "z", "e">>
S_hash == <<"h", "a", "s", "h">>
S_bogus == <<"b", "o", "g", "u", "s">>
S_meta == <<"m", "e", "t", "a">>
S_any == <<"a", "n", "y">>
S_related == <<"c", "h", "a", "r", "m", "-", "r", "e", "l", "a", "t", "e", "d">>
S_provides == <<"p", "r", "o", "v", "i", "d", "e", "s">>
S_requires == <<"r", "e", "q", "u", "i", "r", "e", "s">>
S_archive == <<"a", "r", "c", "h", "i", "v", "e">>
S_trusty == <<"t", "r", "u", "s", "t", "y">>
S_wordpress == <<"w", "o", "r", "d", "p", "r", "e", "s", "s">>
S_mysql == <<"m", "y", "s", "q", "l">>
S_riak == <<"r", "i", "a", "k">>

\* a / b
Join(a, b) == a \o <<Slash>> \o b

----------------------------------------------------------------------------
(* Path splitting.                                                         *)

\* Returns the index after the "/" that ends the element.
splitPathPastSlash(path, i) ==
    LET i1 == IF i < Len(path) /\ path[i + 1] = Slash THEN i + 1 ELSE i
        j  == IndexByte(From(path, i1), Slash)
    IN  IF j = -1
        THEN [elem |-> From(path, i1), nextIndex |-> Len(path)]
        ELSE [elem |-> Slice(path, i1, j + i1), nextIndex |-> j + i1 + 1]

\* splitPath returns the first path element after path[i:] and the start of
\* the next element.
splitPath(path, i) ==
    LET i1 == IF i < Len(path) /\ path[i + 1] = Slash THEN i + 1 ELSE i
        j  == IndexByte(From(path, i1), Slash)
    IN  IF j = -1
        THEN [elem |-> From(path, i1), nextIndex |-> Len(path)]
        ELSE [elem |-> Slice(path, i1, j + i1), nextIndex |-> j + i1]

\* Leaves the "/" that ends the first element out of the rest.
HandlerKeyOfStripped(path, sp) ==
    IF sp.elem = S_empty
    THEN [key |-> S_empty, rest |-> S_empty]
    ELSE IF sp.nextIndex < Len(path) - 1
         THEN [key |-> Slice(path, 0, sp.nextIndex + 1),
               rest |-> From(path, sp.nextIndex + 1)]
         ELSE [key |-> sp.elem, rest |-> S_empty]

\* handlerKey, once the leading "/" is trimmed off the path and its first
\* element sp is split off.
HandlerKeyOf(path, sp) ==
    IF sp.elem = S_empty
    THEN [key |-> S_empty, rest |-> S_empty]
    ELSE IF sp.nextIndex < Len(path) - 1
         THEN [key |-> Slice(path, 0, sp.nextIndex + 1), rest |-> From(path, sp.nextIndex)]
         ELSE [key |-> sp.elem, rest |-> S_empty]

\* handlerKey returns a key that can be used to look up a handler at the
\* given path, and the remaining path elements.
handlerKey(path) ==
    HandlerKeyOf(TrimPrefix(path, <<Slash>>), splitPath(TrimPrefix(path, <<Slash>>), 0))

----------------------------------------------------------------------------
(* Identifiers (charm.URL) and errors.                                     *)

\* A charm.URL: Reference{User, Name, Revision} and Series.  Revision -1
\* and an empty Series are "not specified".
URL(user, series, name, rev) ==
    [user |-> user, series |-> series, name |-> name, rev |-> rev]

NoURL == URL(S_empty, S_empty, S_empty, -1)

NoErr == [msg |-> "", arg |-> S_empty]
ErrNotFound == [msg |-> "not found", arg |-> S_empty]
ErrDataNotFound == [msg |-> "metadata not found", arg |-> S_empty]

\* Quotes the handler key of the include instead of the include.
ErrUnrecognizedKey(include) ==
    [msg |-> "unrecognized metadata name %q", arg |-> handlerKey(include).key]

\* fmt.Errorf("unrecognized metadata name %q", include)
ErrUnrecognized(include) == [msg |-> "unrecognized metadata name %q", arg |-> include]

\* fmt.Errorf("no ids specified in meta request")
ErrNoIds == [msg |-> "no ids specified in meta request", arg |-> S_empty]

\* An error of a collaborator that is none of the router's own errors.
ErrBackend == [msg |-> "backend failure", arg |-> S_empty]

----------------------------------------------------------------------------
(* Values returned by the metadata handlers (interface{}).                 *)

\* reflect kinds whose values can be nil
NilableKinds == {"map", "ptr", "slice"}

NoTag == << >>

\* The untyped nil interface value.
NilValue == [kind |-> "nil", isNil |-> TRUE, empty |-> TRUE, tag |-> NoTag]

\* A nil map, pointer or slice held in an interface value.
TypedNil(kind) == [kind |-> kind, isNil |-> TRUE, empty |-> TRUE, tag |-> NoTag]

\* The zero value of a non-nilable kind, or an empty non-nil container.
EmptyValue(kind, tag) == [kind |-> kind, isNil |-> FALSE, empty |-> TRUE, tag |-> tag]

\* A value holding data; the tag says which handler made it, for which id
\* and path, and as which element of the batch.
DataValue(kind, tag) == [kind |-> kind, isNil |-> FALSE, empty |-> FALSE, tag |-> tag]

\* Takes only the untyped nil for null.
isNullUntyped(val) == val.kind = "nil"

\* Takes zero values and empty containers for null as well.
isNullOrEmpty(val) == val.kind = "nil" \/ val.isNil \/ val.empty

\* isNull reports whether the given value will encode to a null JSON value.
isNull(val) ==
    IF val.kind = "nil"
    THEN TRUE
    ELSE IF val.kind \notin NilableKinds
         THEN FALSE
         ELSE val.isNil

----------------------------------------------------------------------------
(* Handlers.                                                               *)

\* A BulkIncludeHandler: name is the key it is registered under, Key the
\* grouping key its Key method returns, kind the Go kind of its results.
MetaHandler(name, key, kind) == [name |-> name, Key |-> key, kind |-> kind]

\* The nil BulkIncludeHandler a failed map lookup yields.
NilHandler == MetaHandler(S_empty, "nil", "nil")

\* m[k] of a Go map: the zero value when k is not a key.
Lookup(m, k) == IF k \in DOMAIN m THEN m[k] ELSE NilHandler

\* A table from a set of entries <<key, value>>.
Table(entries) ==
    [k \in {e[1] : e \in entries} |-> (CHOOSE e \in entries : e[1] = k)[2]]

\* A registry whose facets are leaves ("size", "hash") or accept longer
\* paths ("charm-related/", and "hash/" next to "hash"); "archive" is an
\* identifier action.
RegLeaf ==
    [ Global |-> {<<"d", "e", "b", "u", "g">>},
      Id     |-> Table({<<S_archive, "archive">>,
                        <<S_archive \o <<Slash>>, "archive-file">>}),
      Meta   |-> Table({<<S_size, MetaHandler(S_size, "blob", "int")>>,
                        <<S_hash, MetaHandler(S_hash, "blob", "string")>>,
                        <<S_hash \o <<Slash>>,
                          MetaHandler(S_hash \o <<Slash>>, "blob", "string")>>,
                        <<S_related \o <<Slash>>,
                          MetaHandler(S_related \o <<Slash>>, "related", "map")>>}) ]

\* A registry whose facets are all registered with a trailing slash.
RegSlash ==
    [ Global |-> {},
      Id     |-> Table({<<S_archive, "archive">>}),
      Meta   |-> Table({<<S_size \o <<Slash>>,
                          MetaHandler(S_size \o <<Slash>>, "blob", "int")>>,
                        <<S_hash \o <<Slash>>,
                          MetaHandler(S_hash \o <<Slash>>, "blob", "string")>>}) ]

\* A registry whose identifier actions take the "meta" paths.
RegIdMeta ==
    [ Global |-> {},
      Id     |-> Table({<<S_meta, "id-meta">>, <<S_meta \o <<Slash>>, "id-meta-path">>}),
      Meta   |-> Table({<<S_size, MetaHandler(S_size, "blob", "int")>>}) ]

Registries == {RegLeaf, RegSlash, RegIdMeta}

\* The answers a handler can give for one element of a batch.
Outcomes(kind) ==
    IF kind \in NilableKinds
    THEN {"data", "nil", "typednil", "empty"}
    ELSE {"data", "nil", "empty"}

\* The oracle of a request: data maps the cells <<id, handler name, path>>
\* whose answer is not "data" to their answer, fail holds the <<id, Key>>
\* whose batch operation fails, resolve maps the ids that resolveURL does
\* not resolve to "notfound" or "error".
NoOracle == [data |-> << >>, fail |-> {}, resolve |-> << >>]

OutcomeOf(orc, cell) == IF cell \in DOMAIN orc.data THEN orc.data[cell] ELSE "data"

\* Element i of the results of a batch: handler h on id and path.
ResultOf(orc, h, id, path, i) ==
    LET o   == OutcomeOf(orc, <<id, h.name, path>>)
        tag == <<h.name, id, path, i>>
    IN  CASE o = "data"     -> DataValue(h.kind, tag)
          [] o = "empty"    -> EmptyValue(h.kind, tag)
          [] o = "typednil" -> TypedNil(h.kind)
          [] OTHER          -> NilValue

\* BulkIncludeHandler.Handle, as implemented by the handlers of the
\* registry: one result per handler, or an error for the whole batch.
Handle(orc, recv, hs, id, paths, flags) ==
    IF <<id, recv.Key>> \in orc.fail
    THEN [err |-> ErrBackend, results |-> << >>]
    ELSE [err |-> NoErr,
          results |-> [i \in 1..Len(hs) |-> ResultOf(orc, hs[i], id, paths[i], i)]]

\* The record of one invocation of Handle.
HandleCall(recv, hs, id, paths, flags) ==
    [recv |-> recv, hs |-> hs, id |-> id, paths |-> paths, flags |-> flags]

\* url.Values: nil, or the values of the query parameters.
NilFlags == [isNil |-> TRUE, include |-> << >>, id |-> << >>]
Flags(include, ids) == [isNil |-> FALSE, include |-> include, id |-> ids]

----------------------------------------------------------------------------
(* The metadata batching engine.                                           *)

\* m[k] = v of a Go map
Put(m, k, v) == [x \in (DOMAIN m) \cup {k} |-> IF x = k THEN v ELSE m[x]]

\* m[k] of a Go map of slices: the nil slice when k is not a key.
SliceAt(m, k) == IF k \in DOMAIN m THEN m[k] ELSE << >>

\* The orders in which a range over a Go map with the keys S can run.
Orders(S) ==
    {o \in [1..Cardinality(S) -> S] : \A a, b \in DOMAIN o : a # b => o[a] # o[b]}

\* Puts each include at the front of the includes of its group.
RECURSIVE GroupIncludesPrepend(_, _, _, _, _)
GroupIncludesPrepend(meta, includes, k, groups, includesByGroup) ==
    IF k > Len(includes)
    THEN [err |-> NoErr, groups |-> groups, includesByGroup |-> includesByGroup]
    ELSE LET include    == includes[k]
             includeKey == handlerKey(include).key
             handler    == Lookup(meta, includeKey)
             key        == handler.Key
         IN  IF handler = NilHandler
             THEN [err |-> ErrUnrecognized(include), groups |-> << >>,
                   includesByGroup |-> << >>]
             ELSE GroupIncludesPrepend(meta, includes, k + 1,
                      Put(groups, key, Append(SliceAt(groups, key), handler)),
                      Put(includesByGroup, key,
                          <<include>> \o SliceAt(includesByGroup, key)))

\* The first loop of GetMetadata from include k on: looks up the handler of
\* every include and appends it, and the include, to its group.
RECURSIVE GroupIncludes(_, _, _, _, _)
GroupIncludes(meta, includes, k, groups, includesByGroup) ==
    IF k > Len(includes)
    THEN [err |-> NoErr, groups |-> groups, includesByGroup |-> includesByGroup]
    ELSE LET include    == includes[k]
             includeKey == handlerKey(include).key
             handler    == Lookup(meta, includeKey)
             key        == handler.Key
         IN  IF handler = NilHandler
             THEN [err |-> ErrUnrecognized(include), groups |-> << >>,
                   includesByGroup |-> << >>]
             ELSE GroupIncludes(meta, includes, k + 1,
                      Put(groups, key, Append(SliceAt(groups, key), handler)),
                      Put(includesByGroup, key,
                          Append(SliceAt(includesByGroup, key), include)))

\* Stores each result under the handler key of its include.
RECURSIVE MergeResultsByKey(_, _, _, _)
MergeResultsByKey(results, groupIncludes, groupResults, i) ==
    IF i > Len(groupResults)
    THEN results
    ELSE MergeResultsByKey(
             IF ~isNull(groupResults[i])
             THEN Put(results, handlerKey(groupIncludes[i]).key, groupResults[i])
             ELSE results,
             groupIncludes, groupResults, i + 1)

\* Keeps the result an earlier occurrence of the include stored.
RECURSIVE MergeResultsKeepFirst(_, _, _, _)
MergeResultsKeepFirst(results, groupIncludes, groupResults, i) ==
    IF i > Len(groupResults)
    THEN results
    ELSE MergeResultsKeepFirst(
             IF ~isNull(groupResults[i]) /\ groupIncludes[i] \notin DOMAIN results
             THEN Put(results, groupIncludes[i], groupResults[i])
             ELSE results,
             groupIncludes, groupResults, i + 1)

\* The loop of GetMetadata that stores the results of one group from result
\* i on, omitting the null ones.
RECURSIVE MergeResults(_, _, _, _)
MergeResults(results, groupIncludes, groupResults, i) ==
    IF i > Len(groupResults)
    THEN results
    ELSE MergeResults(
             IF ~isNull(groupResults[i])
             THEN Put(results, groupIncludes[i], groupResults[i])
             ELSE results,
             groupIncludes, groupResults, i + 1)

\* Passes the includes on as they are.
GroupPathsUnstripped(groupIncludes, n) == [i \in 1..n |-> groupIncludes[i]]

\* The paths of a group of n handlers: all the path elements of its
\* includes after the handler key has been stripped off.
GroupPaths(groupIncludes, n) == [i \in 1..n |-> handlerKey(groupIncludes[i]).rest]

\* Returns the results collected so far along with the error.
GroupFailedPartial(err, results, made) ==
    [err |-> err, isNil |-> FALSE, meta |-> results, calls |-> made]

\* What GetMetadata returns when the batch operation of a group fails with
\* err: the error and no mapping.
GroupFailed(err, results, made) ==
    [err |-> err, isNil |-> TRUE, meta |-> << >>, calls |-> made]

\* Handles the first group the range yields and leaves the others out.
HandleGroupsFirstOnly(orc, id, grouped, order, k, results, made, flags) ==
    IF k > Len(order)
    THEN [err |-> NoErr, isNil |-> FALSE, meta |-> results, calls |-> made]
    ELSE LET g             == grouped.groups[order[k]]
             groupIncludes == grouped.includesByGroup[g[1].Key]
             paths         == GroupPaths(groupIncludes, Len(g))
             r             == Handle(orc, g[1], g, id, paths, flags)
             made1         == Append(made, HandleCall(g[1], g, id, paths, flags))
         IN  IF r.err # NoErr
             THEN GroupFailed(r.err, results, made1)
             ELSE [err |-> NoErr, isNil |-> FALSE,
                   meta |-> MergeResults(results, groupIncludes, r.results, 1),
                   calls |-> made1]

\* Goes on with the other groups after the batch operation of a group has
\* failed, and returns the error at the end.
RECURSIVE HandleGroupsAll(_, _, _, _, _, _, _, _)
HandleGroupsAll(orc, id, grouped, order, k, results, made, flags) ==
    IF k > Len(order)
    THEN IF \E c \in DOMAIN made : <<id, made[c].recv.Key>> \in orc.fail
         THEN GroupFailed(ErrBackend, results, made)
         ELSE [err |-> NoErr, isNil |-> FALSE, meta |-> results, calls |-> made]
    ELSE LET g             == grouped.groups[order[k]]
             groupIncludes == grouped.includesByGroup[g[1].Key]
             paths         == GroupPaths(groupIncludes, Len(g))
             r             == Handle(orc, g[1], g, id, paths, flags)
             made1         == Append(made, HandleCall(g[1], g, id, paths, flags))
         IN  HandleGroupsAll(orc, id, grouped, order, k + 1,
                 IF r.err # NoErr THEN results
                 ELSE MergeResults(results, groupIncludes, r.results, 1),
                 made1, flags)

\* The second loop of GetMetadata, taking the groups in the given order
\* from group k on: one Handle per group, stopping at the first error.
RECURSIVE HandleGroups(_, _, _, _, _, _, _, _)
HandleGroups(orc, id, grouped, order, k, results, made, flags) ==
    IF k > Len(order)
    THEN [err |-> NoErr, isNil |-> FALSE, meta |-> results, calls |-> made]
    ELSE LET g             == grouped.groups[order[k]]
             groupIncludes == grouped.includesByGroup[g[1].Key]
             paths         == GroupPaths(groupIncludes, Len(g))
             r             == Handle(orc, g[1], g, id, paths, flags)
             made1         == Append(made, HandleCall(g[1], g, id, paths, flags))
         IN  IF r.err # NoErr
             THEN GroupFailed(r.err, results, made1)
             ELSE HandleGroups(orc, id, grouped, order, k + 1,
                      MergeResults(results, groupIncludes, r.results, 1),
                      made1, flags)

\* Handles the includes one by one, from include k on: a batch of one
\* handler for each.
RECURSIVE UnbatchedLoop(_, _, _, _, _, _)
UnbatchedLoop(orc, id, meta, includes, k, sofar) ==
    IF k > Len(includes) \/ sofar.err # NoErr
    THEN sofar
    ELSE LET one == GroupIncludes(meta, <<includes[k]>>, 1, << >>, << >>)
         IN  UnbatchedLoop(orc, id, meta, includes, k + 1,
                 HandleGroups(orc, id, one,
                              <<CHOOSE key \in DOMAIN one.groups : TRUE>>, 1,
                              sofar.meta, sofar.calls, NilFlags))

\* Looks up every include, then makes one call of Handle for each.
GetMetadataUnbatched(reg, orc, id, includes, order) ==
    LET grouped == GroupIncludes(reg.Meta, includes, 1, << >>, << >>)
    IN  IF grouped.err # NoErr
        THEN [err |-> grouped.err, isNil |-> TRUE, meta |-> << >>, calls |-> << >>]
        ELSE UnbatchedLoop(orc, id, reg.Meta, includes, 1,
                 [err |-> NoErr, isNil |-> FALSE, meta |-> << >>, calls |-> << >>])

\* The includes before the first one that is unrecognized.
RecognizedPrefix(meta, includes) ==
    SubSeq(includes, 1,
           (CHOOSE k \in DOMAIN includes :
               /\ Lookup(meta, handlerKey(includes[k]).key) = NilHandler
               /\ \A m \in 1..(k - 1) :
                     Lookup(meta, handlerKey(includes[m]).key) # NilHandler) - 1)

\* Runs the batch operations of the includes it has looked up before it
\* reports the one that is unrecognized.
GetMetadataLazy(reg, orc, id, includes, order) ==
    LET grouped == GroupIncludes(reg.Meta, includes, 1, << >>, << >>)
    IN  IF grouped.err # NoErr
        THEN [err |-> grouped.err, isNil |-> TRUE, meta |-> << >>,
              calls |-> HandleGroups(orc, id,
                            GroupIncludes(reg.Meta, RecognizedPrefix(reg.Meta, includes),
                                          1, << >>, << >>),
                            CHOOSE o \in Orders(DOMAIN GroupIncludes(reg.Meta,
                                RecognizedPrefix(reg.Meta, includes),
                                1, << >>, << >>).groups) : TRUE,
                            1, << >>, << >>, NilFlags).calls]
        ELSE HandleGroups(orc, id, grouped, order, 1, << >>, << >>, NilFlags)

\* GetMetadata retrieves metadata for the given charm or bundle id,
\* including information as specified by the includes slice.  order is the
\* order in which the range over the groups runs.
GetMetadata(reg, orc, id, includes, order) ==
    LET grouped == GroupIncludes(reg.Meta, includes, 1, << >>, << >>)
    IN  IF grouped.err # NoErr
        THEN [err |-> grouped.err, isNil |-> TRUE, meta |-> << >>, calls |-> << >>]
        ELSE HandleGroups(orc, id, grouped, order, 1, << >>, << >>, NilFlags)

\* The grouping keys of the includes: the keys the range of GetMetadata
\* runs over (none when an include is unrecognized).
GroupKeys(reg, includes) ==
    DOMAIN GroupIncludes(reg.Meta, includes, 1, << >>, << >>).groups

----------------------------------------------------------------------------
(* Identifier parsing and resolution.                                      *)

Letters ==
    {"a", "b", "c", "d", "e", "f", "g", "h", "i", "j", "k", "l", "m",
     "n", "o", "p", "q", "r", "s", "t", "u", "v", "w", "x", "y", "z"}

Digits == <<"0", "1", "2", "3", "4", "5", "6", "7", "8", "9">>

IsDigit(c) == \E d \in 1..Len(Digits) : Digits[d] = c

DigitValue(c) == (CHOOSE d \in 1..Len(Digits) : Digits[d] = c) - 1

\* strconv.Atoi of a string of digits
RECURSIVE Atoi(_)
Atoi(s) ==
    IF s = S_empty THEN 0
    ELSE 10 * Atoi(SubSeq(s, 1, Len(s) - 1)) + DigitValue(s[Len(s)])

\* strings.Split(s, "/")
RECURSIVE SplitSlash(_)
SplitSlash(s) ==
    LET j == IndexByte(s, Slash)
    IN  IF j = -1 THEN <<s>> ELSE <<Slice(s, 0, j)>> \o SplitSlash(From(s, j + 1))

knownSeries ==
    { <<"b", "u", "n", "d", "l", "e">>,
      <<"p", "r", "e", "c", "i", "s", "e">>,
      <<"q", "u", "a", "n", "t", "a", "l">>,
      <<"r", "a", "r", "i", "n", "g">>,
      <<"s", "a", "u", "c", "y">>,
      S_trusty,
      <<"u", "t", "o", "p", "i", "c">> }

\* The names the charm package accepts for users and series: letters.
IsValidWord(s) == s # S_empty /\ \A k \in 1..Len(s) : s[k] \in Letters

\* The names the charm package accepts for charms: a letter, then letters,
\* digits and dashes.
IsValidName(s) ==
    /\ s # S_empty
    /\ s[1] \in Letters
    /\ \A k \in 1..Len(s) : s[k] \in Letters \/ IsDigit(s[k]) \/ s[k] = "-"

ErrParse(urlStr) == [msg |-> "charm URL has invalid form %q", arg |-> urlStr]

\* The index of the "-" that starts the revision of name, or 0: the loop of
\* ParseReference that runs from the end of the name over its digits.
RevisionDash(name) ==
    LET n == Len(name)
        stops == {k \in 2..n : ~IsDigit(name[k])}
        last == IF stops = {} THEN 0 ELSE CHOOSE k \in stops : \A m \in stops : m <= k
    IN  IF last # 0 /\ name[last] = "-" /\ last # n THEN last ELSE 0

ParseFail(urlStr) == [err |-> ErrParse(urlStr), url |-> NoURL]

\* ParseReference on the last part: the name, and the revision after the
\* "-" at index dash, if any.
ParseName(urlStr, user, series, full, dash) ==
    IF dash = 0
    THEN IF IsValidName(full)
         THEN [err |-> NoErr, url |-> URL(user, series, full, -1)]
         ELSE ParseFail(urlStr)
    ELSE IF IsValidName(SubSeq(full, 1, dash - 1))
         THEN [err |-> NoErr,
               url |-> URL(user, series, SubSeq(full, 1, dash - 1),
                           Atoi(SubSeq(full, dash + 1, Len(full))))]
         ELSE ParseFail(urlStr)

\* ParseReference on the parts after the user: the series, if there are
\* two parts, and the name.
ParseSeries(urlStr, user, parts) ==
    IF Len(parts) = 2
    THEN IF IsValidWord(parts[1])
         THEN ParseName(urlStr, user, parts[1], parts[2], RevisionDash(parts[2]))
         ELSE ParseFail(urlStr)
    ELSE IF Len(parts) = 1
         THEN ParseName(urlStr, user, S_empty, parts[1], RevisionDash(parts[1]))
         ELSE ParseFail(urlStr)

\* ParseReference on the parts of the string: at most three, the first the
\* user if it starts with "~".
ParseUser(urlStr, parts) ==
    IF Len(parts) > 3
    THEN ParseFail(urlStr)
    ELSE IF HasPrefix(parts[1], <<"~">>)
         THEN IF IsValidWord(From(parts[1], 1))
              THEN ParseSeries(urlStr, From(parts[1], 1), Tail(parts))
              ELSE ParseFail(urlStr)
         ELSE ParseSeries(urlStr, S_empty, parts)

\* charm.ParseReference: [~user/][series/]name[-revision]
ParseReference(urlStr) == ParseUser(urlStr, SplitSlash(urlStr))

\* parseURL
parseURL(urlStr) == ParseReference(urlStr)

\* splitId, once the id is known to be path[0:i]: parses it.
SplitIdParse(path, i, parsed) ==
    IF parsed.err # NoErr
    THEN [url |-> NoURL, rest |-> S_empty, err |-> parsed.err]
    ELSE [url |-> parsed.url, rest |-> From(path, i), err |-> NoErr]

\* splitId at the element p after the user: skips the series.
SplitIdSeries(path, p) ==
    IF p.elem \in knownSeries
    THEN SplitIdParse(path, splitPath(path, p.nextIndex).nextIndex,
             parseURL(TrimSuffix(Slice(path, 0, splitPath(path, p.nextIndex).nextIndex),
                                 <<Slash>>)))
    ELSE SplitIdParse(path, p.nextIndex,
             parseURL(TrimSuffix(Slice(path, 0, p.nextIndex), <<Slash>>)))

\* splitId at the first element p: skips ~<username>.
SplitIdUser(path, p) ==
    IF HasPrefix(p.elem, <<"~">>)
    THEN SplitIdSeries(path, splitPath(path, p.nextIndex))
    ELSE SplitIdSeries(path, p)

\* splitId splits the id off the front of the path.
splitId(path) ==
    SplitIdUser(TrimPrefix(path, <<Slash>>), splitPath(TrimPrefix(path, <<Slash>>), 0))

\* The resolveURL function the router is created with: fills in the Series
\* and Revision fields of its argument if they are not specified, or fails.
resolveURL(orc, url) ==
    IF url \in DOMAIN orc.resolve
    THEN [err |-> IF orc.resolve[url] = "notfound" THEN ErrNotFound ELSE ErrBackend,
          url |-> url]
    ELSE [err |-> NoErr,
          url |-> [url EXCEPT !.series = IF @ = S_empty THEN S_trusty ELSE @,
                              !.rev = IF @ = -1 THEN 0 ELSE @]]

----------------------------------------------------------------------------
(* Dispatch: serveMeta, serveIds and serveBulkMeta.                        *)

\* The characters of the model in byte order.
Alphabet ==
    <<"-", "/">> \o Digits \o
    <<"a", "b", "c", "d", "e", "f", "g", "h", "i", "j", "k", "l", "m",
      "n", "o", "p", "q", "r", "s", "t", "u", "v", "w", "x", "y", "z", "~">>

Ord(c) == CHOOSE k \in 1..Len(Alphabet) : Alphabet[k] = c

\* a < b for Go strings
RECURSIVE StringLess(_, _)
StringLess(a, b) ==
    IF b = S_empty THEN FALSE
    ELSE IF a = S_empty THEN TRUE
    ELSE IF a[1] = b[1] THEN StringLess(Tail(a), Tail(b))
    ELSE Ord(a[1]) < Ord(b[1])

\* sort.Strings of the names of the given keys, one name per key
RECURSIVE SortedNames(_)
SortedNames(keys) ==
    IF keys = {} THEN << >>
    ELSE LET least == CHOOSE k \in keys :
                          \A m \in keys : ~StringLess(TrimSuffix(m, <<Slash>>),
                                                      TrimSuffix(k, <<Slash>>))
         IN  <<TrimSuffix(least, <<Slash>>)>> \o SortedNames(keys \ {least})

\* Lists a name once when it is registered with and without a slash.
metaNamesOfSet(reg) ==
    SortedNames({TrimSuffix(name, <<Slash>>) : name \in DOMAIN reg.Meta})

\* metaNames: the names of the metadata handlers, sorted
metaNames(reg) == SortedNames(DOMAIN reg.Meta)

\* The outcome of a dispatch: the error and the value returned, and the
\* invocations made.
Outcome(err, kind, body, made) ==
    [err |-> err, kind |-> kind, body |-> body, calls |-> made]

\* serveMeta for meta/any: the response of GetMetadata's result r.
ServeMetaAny(id, r) ==
    IF r.err # NoErr
    THEN Outcome(r.err, "none", << >>, r.calls)
    ELSE Outcome(NoErr, "any", [Id |-> id, Meta |-> r.meta], r.calls)

\* Returns a null result as the body of a successful response.
ServeMetaOneNull(r, made) ==
    IF r.err # NoErr
    THEN Outcome(r.err, "none", << >>, <<made>>)
    ELSE Outcome(NoErr, "value", r.results[1], <<made>>)

\* serveMeta for meta/<facet>: the response of the result r of the call
\* made of the facet's handler.
ServeMetaOne(r, made) ==
    IF r.err # NoErr
    THEN Outcome(r.err, "none", << >>, <<made>>)
    ELSE IF isNull(r.results[1])
         THEN Outcome(ErrDataNotFound, "none", << >>, <<made>>)
         ELSE Outcome(NoErr, "value", r.results[1], <<made>>)

\* Reports a metadata name without a handler as an unrecognized name.
ServeMetaKeyUnrecognized(reg, orc, id, key, path, form, order) ==
    IF key = S_empty
    THEN Outcome(NoErr, "names", metaNames(reg), << >>)
    ELSE IF key = S_any
    THEN ServeMetaAny(id, GetMetadata(reg, orc, id, form.include, order))
    ELSE IF Lookup(reg.Meta, key) # NilHandler
    THEN ServeMetaOne(
             Handle(orc, Lookup(reg.Meta, key), <<Lookup(reg.Meta, key)>>, id,
                    <<path>>, form),
             HandleCall(Lookup(reg.Meta, key), <<Lookup(reg.Meta, key)>>, id,
                        <<path>>, form))
    ELSE Outcome(ErrUnrecognized(key), "none", << >>, << >>)

\* serveMeta, once the handler key and the rest of the path are known.
ServeMetaKey(reg, orc, id, key, path, form, order) ==
    IF key = S_empty
    THEN Outcome(NoErr, "names", metaNames(reg), << >>)
    ELSE IF key = S_any
    THEN ServeMetaAny(id, GetMetadata(reg, orc, id, form.include, order))
    ELSE IF Lookup(reg.Meta, key) # NilHandler
    THEN ServeMetaOne(
             Handle(orc, Lookup(reg.Meta, key), <<Lookup(reg.Meta, key)>>, id,
                    <<path>>, form),
             HandleCall(Lookup(reg.Meta, key), <<Lookup(reg.Meta, key)>>, id,
                        <<path>>, form))
    ELSE Outcome(ErrNotFound, "none", << >>, << >>)

\* serveMeta on the resolved id, for the request path after "meta"; order
\* is the order GetMetadata takes the groups in.
serveMeta(reg, orc, id, path, form, order) ==
    ServeMetaKey(reg, orc, id, handlerKey(path).key, handlerKey(path).rest, form, order)

\* The record of one invocation of an IdHandler.
IdCall(handler, id, path) == [handler |-> handler, id |-> id, path |-> path]

\* What serveIds did: the outcome, and the invocations of resolveURL and
\* of the id handlers.
Served(out, res, ids) == [out |-> out, resolved |-> res, idCalls |-> ids]

\* Serves the names of the facets for an id without a sub-path.
ServeIdsKeyBare(reg, orc, url, id, key, path, form, order) ==
    IF key = S_empty
    THEN Served(serveMeta(reg, orc, id, path, form, order), <<url>>, << >>)
    ELSE IF key \in DOMAIN reg.Id
    THEN Served(Outcome(NoErr, "id", reg.Id[key], << >>), <<url>>,
                <<IdCall(reg.Id[key], id, path)>>)
    ELSE IF key # S_meta \o <<Slash>> /\ key # S_meta
    THEN Served(Outcome(ErrNotFound, "none", << >>, << >>), <<url>>, << >>)
    ELSE Served(serveMeta(reg, orc, id, path, form, order), <<url>>, << >>)

\* Looks for the "meta" keys before it looks into the Id table.
ServeIdsKeyMetaFirst(reg, orc, url, id, key, path, form, order) ==
    IF key = S_empty
    THEN Served(Outcome(ErrNotFound, "none", << >>, << >>), <<url>>, << >>)
    ELSE IF key = S_meta \o <<Slash>> \/ key = S_meta
    THEN Served(serveMeta(reg, orc, id, path, form, order), <<url>>, << >>)
    ELSE IF key \in DOMAIN reg.Id
    THEN Served(Outcome(NoErr, "id", reg.Id[key], << >>), <<url>>,
                <<IdCall(reg.Id[key], id, path)>>)
    ELSE Served(Outcome(ErrNotFound, "none", << >>, << >>), <<url>>, << >>)

\* Takes only "meta/" for the metadata path, and not "meta".
ServeIdsKeySlashOnly(reg, orc, url, id, key, path, form, order) ==
    IF key = S_empty
    THEN Served(Outcome(ErrNotFound, "none", << >>, << >>), <<url>>, << >>)
    ELSE IF key \in DOMAIN reg.Id
    THEN Served(Outcome(NoErr, "id", reg.Id[key], << >>), <<url>>,
                <<IdCall(reg.Id[key], id, path)>>)
    ELSE IF key # S_meta \o <<Slash>>
    THEN Served(Outcome(ErrNotFound, "none", << >>, << >>), <<url>>, << >>)
    ELSE Served(serveMeta(reg, orc, id, path, form, order), <<url>>, << >>)

\* serveIds, once the id is resolved and the handler key is known.
ServeIdsKey(reg, orc, url, id, key, path, form, order) ==
    IF key = S_empty
    THEN Served(Outcome(ErrNotFound, "none", << >>, << >>), <<url>>, << >>)
    ELSE IF key \in DOMAIN reg.Id
    THEN Served(Outcome(NoErr, "id", reg.Id[key], << >>), <<url>>,
                <<IdCall(reg.Id[key], id, path)>>)
    ELSE IF key # S_meta \o <<Slash>> /\ key # S_meta
    THEN Served(Outcome(ErrNotFound, "none", << >>, << >>), <<url>>, << >>)
    ELSE Served(serveMeta(reg, orc, id, path, form, order), <<url>>, << >>)

\* Looks at the handler key before it looks at what resolveURL returned: a
\* bare id is not found even when it does not resolve.
ServeIdsResolvedKeyFirst(reg, orc, sp, res, form, order) ==
    IF handlerKey(sp.rest).key = S_empty
    THEN Served(Outcome(ErrNotFound, "none", << >>, << >>), <<sp.url>>, << >>)
    ELSE IF res.err # NoErr
    THEN Served(Outcome(res.err, "none", << >>, << >>), <<sp.url>>, << >>)
    ELSE ServeIdsKey(reg, orc, sp.url, res.url, handlerKey(sp.rest).key,
                     handlerKey(sp.rest).rest, form, order)

\* serveIds, once the id is split off and res is what resolveURL made of it.
ServeIdsResolved(reg, orc, sp, res, form, order) ==
    IF res.err # NoErr
    THEN Served(Outcome(res.err, "none", << >>, << >>), <<sp.url>>, << >>)
    ELSE ServeIdsKey(reg, orc, sp.url, res.url, handlerKey(sp.rest).key,
                     handlerKey(sp.rest).rest, form, order)

\* serveIds, once the id is split off the path.
ServeIdsSplit(reg, orc, sp, form, order) ==
    IF sp.err # NoErr
    THEN Served(Outcome(sp.err, "none", << >>, << >>), << >>, << >>)
    ELSE ServeIdsResolved(reg, orc, sp, resolveURL(orc, sp.url), form, order)

\* serveIds serves requests that may be rooted at a charm or bundle id.
serveIds(reg, orc, urlPath, form, order) ==
    ServeIdsSplit(reg, orc, splitId(TrimSuffix(urlPath, <<Slash>>)), form, order)

RECURSIVE BulkLoop(_, _, _, _, _, _, _, _, _, _)

\* Treats "metadata not found" like any other error.
BulkMetaStrict(reg, orc, path, form, order, ids, k, result, made, res, meta) ==
    IF meta.err # NoErr
    THEN Served(Outcome(meta.err, "none", << >>, made \o meta.calls), res, << >>)
    ELSE BulkLoop(reg, orc, path, form, order, ids, k + 1,
                  Put(result, ids[k], [kind |-> meta.kind, body |-> meta.body, at |-> k]),
                  made \o meta.calls, res)

\* The string form of an id: [~user/][series/]name[-revision].
IdString(url) ==
    (IF url.user # S_empty THEN <<"~">> \o url.user \o <<Slash>> ELSE << >>)
    \o (IF url.series # S_empty THEN url.series \o <<Slash>> ELSE << >>)
    \o url.name
    \o (IF url.rev >= 0 THEN <<"-", Digits[url.rev + 1]>> ELSE << >>)

\* Stores the metadata under the string form of the resolved id.
BulkMetaCanonical(reg, orc, path, form, order, ids, k, result, made, res, meta) ==
    IF meta.err = ErrDataNotFound
    THEN BulkLoop(reg, orc, path, form, order, ids, k + 1, result,
                  made \o meta.calls, res)
    ELSE IF meta.err # NoErr
    THEN Served(Outcome(meta.err, "none", << >>, made \o meta.calls), res, << >>)
    ELSE BulkLoop(reg, orc, path, form, order, ids, k + 1,
                  Put(result, IdString(resolveURL(orc, res[Len(res)]).url),
                      [kind |-> meta.kind, body |-> meta.body, at |-> k]),
                  made \o meta.calls, res)

\* Keeps the entry an earlier occurrence of the id string stored.
BulkMetaKeepFirst(reg, orc, path, form, order, ids, k, result, made, res, meta) ==
    IF meta.err = ErrDataNotFound
    THEN BulkLoop(reg, orc, path, form, order, ids, k + 1, result,
                  made \o meta.calls, res)
    ELSE IF meta.err # NoErr
    THEN Served(Outcome(meta.err, "none", << >>, made \o meta.calls), res, << >>)
    ELSE BulkLoop(reg, orc, path, form, order, ids, k + 1,
                  IF ids[k] \in DOMAIN result THEN result
                  ELSE Put(result, ids[k],
                           [kind |-> meta.kind, body |-> meta.body, at |-> k]),
                  made \o meta.calls, res)

\* The body of the loop of serveBulkMeta for id k, once the id is resolved
\* and meta is what serveMeta returned for it; an entry of the result holds
\* the value serveMeta returned and, as its history, the position at of the
\* id that stored it.
BulkMeta(reg, orc, path, form, order, ids, k, result, made, res, meta) ==
    IF meta.err = ErrDataNotFound
    THEN BulkLoop(reg, orc, path, form, order, ids, k + 1, result,
                  made \o meta.calls, res)
    ELSE IF meta.err # NoErr
    THEN Served(Outcome(meta.err, "none", << >>, made \o meta.calls), res, << >>)
    ELSE BulkLoop(reg, orc, path, form, order, ids, k + 1,
                  Put(result, ids[k], [kind |-> meta.kind, body |-> meta.body, at |-> k]),
                  made \o meta.calls, res)

\* Treats "not found" like any other error of resolveURL.
BulkResolvedStrict(reg, orc, path, form, order, ids, k, result, made, res, r) ==
    IF r.err # NoErr
    THEN Served(Outcome(r.err, "none", << >>, made), res, << >>)
    ELSE BulkMeta(reg, orc, path, form, order, ids, k, result, made, res,
                  serveMeta(reg, orc, r.url, path, form, order))

\* The body of the loop of serveBulkMeta for id k, once the id is parsed
\* and r is what resolveURL made of it.
BulkResolved(reg, orc, path, form, order, ids, k, result, made, res, r) ==
    IF r.err = ErrNotFound
    THEN BulkLoop(reg, orc, path, form, order, ids, k + 1, result, made, res)
    ELSE IF r.err # NoErr
    THEN Served(Outcome(r.err, "none", << >>, made), res, << >>)
    ELSE BulkMeta(reg, orc, path, form, order, ids, k, result, made, res,
                  serveMeta(reg, orc, r.url, path, form, order))

\* Skips an id that does not parse, like one that does not resolve.
BulkParsedLenient(reg, orc, path, form, order, ids, k, result, made, res, parsed) ==
    IF parsed.err # NoErr
    THEN BulkLoop(reg, orc, path, form, order, ids, k + 1, result, made, res)
    ELSE BulkResolved(reg, orc, path, form, order, ids, k, result, made,
                      Append(res, parsed.url), resolveURL(orc, parsed.url))

\* The body of the loop of serveBulkMeta for id k, once the id is parsed.
BulkParsed(reg, orc, path, form, order, ids, k, result, made, res, parsed) ==
    IF parsed.err # NoErr
    THEN Served(Outcome(parsed.err, "none", << >>, made), res, << >>)
    ELSE BulkResolved(reg, orc, path, form, order, ids, k, result, made,
                      Append(res, parsed.url), resolveURL(orc, parsed.url))

\* The loop of serveBulkMeta from id k on; made and res are the invocations
\* of Handle and of resolveURL so far.
BulkLoop(reg, orc, path, form, order, ids, k, result, made, res) ==
    IF k > Len(ids)
    THEN Served(Outcome(NoErr, "bulk", result, made), res, << >>)
    ELSE BulkParsed(reg, orc, path, form, order, ids, k, result, made, res,
                    parseURL(ids[k]))

\* serveBulkMeta serves the "bulk" metadata retrieval endpoint that can
\* return information on several ids at once; path is the request path
\* with the "/meta" prefix stripped.
serveBulkMeta(reg, orc, path, form, order) ==
    IF Len(form.id) = 0
    THEN Served(Outcome(ErrNoIds, "none", << >>, << >>), << >>, << >>)
    ELSE BulkLoop(reg, orc, path, [form EXCEPT !.id = << >>], order, form.id, 1,
                  << >>, << >>, << >>)

----------------------------------------------------------------------------
(* Requests, responses and the answers of the collaborators.               *)

\* A request: op is the entry point, path the URL path (req.URL.Path), id
\* the id argument of a direct call, includes and ids the values of the
\* "include" and "id" query parameters (or the includes argument).
Request(op, path, id, includes, ids) ==
    [op |-> op, path |-> path, id |-> id, includes |-> includes, ids |-> ids]

NoRequest == Request("none", S_empty, NoURL, << >>, << >>)

\* The outcome of a request: the error returned, and the value returned or
\* written with it (kind says which: "map" for the mapping of GetMetadata).
Response(err, kind, body) == [err |-> err, kind |-> kind, body |-> body]

NoResponse == Response(NoErr, "none", << >>)

\* The sequences over S of length at most n.
SeqsUpTo(S, n) == UNION {[1..k -> S] : k \in 0..n}

\* The subsets of C with at most n elements.
FaultSets(C, n) == {S \in SUBSET C : Cardinality(S) <= n}

\* The answers other than "data" that the handlers of reg can give for
\* the cells D.
DataAnswers(reg, D) ==
    {f \in [D -> {"nil", "typednil", "empty"}] :
        \A c \in D : f[c] \in Outcomes(reg.Meta[c[2]].kind)}

\* The answers of resolveURL for the ids rescells that deviate: at most
\* MaxFaults of them.
ResolveAnswers(rescells) ==
    UNION {[R -> {"notfound", "error"}] : R \in FaultSets(rescells, MaxFaults)}

\* The oracles of a request in which resolveURL answers g, the handlers are
\* asked for cells and the batch operations failcells run, with at most
\* MaxFaults answers that deviate.
Oracles(reg, cells, failcells, g) ==
    UNION {
      UNION {
        {[data |-> f, fail |-> F, resolve |-> g] : f \in DataAnswers(reg, D)}
        : F \in FaultSets(failcells,
                          MaxFaults - Cardinality(DOMAIN g) - Cardinality(D)) }
      : D \in FaultSets(cells, MaxFaults - Cardinality(DOMAIN g)) }

\* The cells GetMetadata(id, includes) asks the handlers of reg for.
IncludeCells(reg, id, includes) ==
    IF GroupKeys(reg, includes) = {}
    THEN {}
    ELSE {<<id, Lookup(reg.Meta, handlerKey(includes[k]).key).name,
            handlerKey(includes[k]).rest>> : k \in 1..Len(includes)}

\* The batch operations GetMetadata(id, includes) can run.
IncludeFailCells(reg, id, includes) == {<<id, key>> : key \in GroupKeys(reg, includes)}

\* The cells serveMeta(id, path) asks the handlers of reg for.
MetaCells(reg, id, path, includes) ==
    IF handlerKey(path).key = S_any THEN IncludeCells(reg, id, includes)
    ELSE IF handlerKey(path).key \in DOMAIN reg.Meta
    THEN {<<id, reg.Meta[handlerKey(path).key].name, handlerKey(path).rest>>}
    ELSE {}

\* The batch operations serveMeta(id, path) can run.
MetaFailCells(reg, id, path, includes) ==
    IF handlerKey(path).key = S_any THEN IncludeFailCells(reg, id, includes)
    ELSE IF handlerKey(path).key \in DOMAIN reg.Meta
    THEN {<<id, reg.Meta[handlerKey(path).key].Key>>}
    ELSE {}

\* The oracles of a request to serveIds, once the id is split off the path
\* and res is what resolveURL, answering g, made of it.
IdOraclesResolved(reg, sp, g, res, includes) ==
    IF /\ sp.err = NoErr
       /\ res.err = NoErr
       /\ handlerKey(sp.rest).key \in {S_meta, S_meta \o <<Slash>>}
    THEN Oracles(reg,
                 MetaCells(reg, res.url, handlerKey(sp.rest).rest, includes),
                 MetaFailCells(reg, res.url, handlerKey(sp.rest).rest, includes), g)
    ELSE Oracles(reg, {}, {}, g)

\* The oracles of a request to serveIds, once the id is split off the path.
IdOraclesSplit(reg, sp, includes) ==
    UNION {IdOraclesResolved(reg, sp, g, resolveURL([resolve |-> g], sp.url), includes) :
              g \in ResolveAnswers(IF sp.err = NoErr THEN {sp.url} ELSE {})}

\* The oracles of a request to serveIds.
IdOracles(reg, path, includes) ==
    IdOraclesSplit(reg, splitId(TrimSuffix(path, <<Slash>>)), includes)

\* The elements of a sequence.
Range(q) == {q[k] : k \in DOMAIN q}

\* The ids among the given id strings that parse and that resolveURL, when
\* it answers g, resolves.
ResolvedIds(ids, g) ==
    {resolveURL([resolve |-> g], parseURL(i).url).url :
        i \in {j \in Range(ids) : /\ parseURL(j).err = NoErr
                                  /\ parseURL(j).url \notin DOMAIN g}}

\* The oracles of a bulk request.
BulkOracles(reg, path, ids, includes) ==
    UNION {Oracles(reg,
                   UNION {MetaCells(reg, id, path, includes) : id \in ResolvedIds(ids, g)},
                   UNION {MetaFailCells(reg, id, path, includes) :
                             id \in ResolvedIds(ids, g)}, g) :
              g \in ResolveAnswers({parseURL(i).url :
                                       i \in {j \in Range(ids) : parseURL(j).err = NoErr}})}

\* The include strings of the requests.
Includes ==
    {S_size, S_hash, Join(S_related, S_provides), Join(S_related, S_requires),
     S_bogus, Join(S_size, <<"x">>)}

\* The resolved id of the direct calls of GetMetadata.
WordpressId == URL(S_empty, S_trusty, S_wordpress, 0)

\* The ids the request paths start with; "~" is no id.
IdParts ==
    {S_wordpress, Join(S_trusty, S_mysql) \o <<"-", "7">>,
     Join(<<"~", "b", "o", "b">>, S_riak), <<"~">>}

\* What follows the id in the request paths.
SubPaths ==
    {S_empty, <<Slash>>,
     <<Slash>> \o S_meta,
     <<Slash>> \o S_meta \o <<Slash>>,
     <<Slash>> \o Join(S_meta, S_any),
     <<Slash>> \o Join(S_meta, S_size),
     <<Slash>> \o Join(S_meta, Join(S_size, <<"x">>)),
     <<Slash>> \o Join(S_meta, S_bogus),
     <<Slash>> \o Join(S_meta, Join(S_related, S_provides)),
     <<Slash>> \o S_archive,
     <<Slash>> \o Join(S_archive, <<"x">>),
     <<Slash>> \o S_bogus}

\* The paths of the requests that may be rooted at an id.
IdPaths == {<<Slash>> \o i \o sub : i \in IdParts, sub \in SubPaths}

\* The path of the meta/any requests whose include lists vary: they hold
\* one include less than the longest list of a direct call of GetMetadata.
AnyPath == <<Slash>> \o S_wordpress \o <<Slash>> \o Join(S_meta, S_any)

\* The paths of the bulk requests, after "/meta".
BulkPaths ==
    {<<Slash>> \o S_size,
     <<Slash>> \o Join(S_size, <<"x">>),
     <<Slash>> \o Join(S_related, S_provides),
     <<Slash>> \o S_bogus,
     <<Slash>> \o S_any,
     <<Slash>>}

\* The id strings of the bulk requests: two strings for one charm, an id
\* with a revision, and a string that is no id.
BulkIds == {S_wordpress, Join(S_trusty, S_wordpress), S_mysql \o <<"-", "7">>, <<"~">>}

\* The include lists of the bulk meta/any requests: one group at most.
BulkIncludes == {<< >>, <<S_size, S_hash>>, <<S_bogus>>}

----------------------------------------------------------------------------
(* The state machine.                                                      *)

Init ==
    /\ handlers \in Registries
    /\ phase = "idle"
    /\ req = NoRequest
    /\ oracle = NoOracle
    /\ resp = NoResponse
    /\ calls = << >>
    /\ resolved = << >>
    /\ idCalls = << >>

\* The state after a call of GetMetadata that returned r.
GetMetadataDone(includes, orc, r) ==
    /\ req' = Request("GetMetadata", S_empty, WordpressId, includes, << >>)
    /\ oracle' = orc
    /\ resp' = Response(r.err, IF r.isNil THEN "none" ELSE "map", r.meta)
    /\ calls' = r.calls
    /\ phase' = "done"
    /\ UNCHANGED <<handlers, resolved, idCalls>>

\* A caller in the process (the search endpoint, say) calls
\* Router.GetMetadata(id, includes).
CallGetMetadata ==
    /\ phase = "idle"
    /\ \E includes \in SeqsUpTo(Includes, MaxIncludes) :
       \E orc \in Oracles(handlers, IncludeCells(handlers, WordpressId, includes),
                          IncludeFailCells(handlers, WordpressId, includes), << >>) :
       \E order \in Orders(GroupKeys(handlers, includes)) :
          GetMetadataDone(includes, orc,
              GetMetadata(handlers, orc, WordpressId, includes, order))

\* Registers the path of the request as a global path on the way.
RequestDoneRegistering(op, path, includes, ids, orc, r) ==
    /\ req' = Request(op, path, NoURL, includes, ids)
    /\ oracle' = orc
    /\ resp' = Response(r.out.err, r.out.kind, r.out.body)
    /\ calls' = r.out.calls
    /\ resolved' = r.resolved
    /\ idCalls' = r.idCalls
    /\ phase' = "done"
    /\ handlers' = [handlers EXCEPT !.Global = @ \cup {path}]

\* The state after a request that serveIds or serveBulkMeta served as r.
RequestDone(op, path, includes, ids, orc, r) ==
    /\ req' = Request(op, path, NoURL, includes, ids)
    /\ oracle' = orc
    /\ resp' = Response(r.out.err, r.out.kind, r.out.body)
    /\ calls' = r.out.calls
    /\ resolved' = r.resolved
    /\ idCalls' = r.idCalls
    /\ phase' = "done"
    /\ UNCHANGED handlers

\* An HTTP request that the mux hands to serveIds.
ServeIds ==
    /\ phase = "idle"
    /\ \E path \in IdPaths :
       \E includes \in (IF path = AnyPath THEN SeqsUpTo(Includes, MaxIncludes - 1)
                        ELSE {<< >>}) :
       \E orc \in IdOracles(handlers, path, includes) :
       \E order \in Orders(GroupKeys(handlers, includes)) :
          RequestDone("ServeIds", path, includes, << >>, orc,
              serveIds(handlers, orc, path, Flags(includes, << >>), order))

\* An HTTP request to /meta/<path>?id=..., that the mux hands to
\* serveBulkMeta with the "/meta" prefix stripped.
ServeBulkMeta ==
    /\ phase = "idle"
    /\ \E path \in BulkPaths :
       \E ids \in SeqsUpTo(BulkIds, MaxIds) :
       \E includes \in (IF path = <<Slash>> \o S_any THEN BulkIncludes ELSE {<< >>}) :
       \E orc \in BulkOracles(handlers, path, ids, includes) :
       \E order \in Orders(GroupKeys(handlers, includes)) :
          RequestDone("ServeBulkMeta", path, includes, ids, orc,
              serveBulkMeta(handlers, orc, path, Flags(includes, ids), order))

\* The request is over: what it created is discarded, the router and its
\* handlers stay.
Finish ==
    /\ phase = "done"
    /\ phase' = "idle"
    /\ req' = NoRequest
    /\ oracle' = NoOracle
    /\ resp' = NoResponse
    /\ calls' = << >>
    /\ resolved' = << >>
    /\ idCalls' = << >>
    /\ UNCHANGED handlers

Next ==
    \/ CallGetMetadata
    \/ ServeIds
    \/ ServeBulkMeta
    \/ Finish

Spec == Init /\ [][Next]_vars

\* The router as the callers in the process use it: calls of GetMetadata
\* only.
NextGetMetadata ==
    \/ CallGetMetadata
    \/ Finish

SpecGetMetadata == Init /\ [][NextGetMetadata]_vars

----------------------------------------------------------------------------
(* The path functions on their own: handlerKey and splitId on any path,    *)
(* and splitPath applied again and again from the index it returned.       *)

\* The characters of the paths: the separator and two letters.
PathChars == {Slash, "a", "b"}

\* The paths the path functions are applied to.
Paths == SeqsUpTo(PathChars, MaxPathLen)

\* A call of handlerKey(path).
CallHandlerKey ==
    /\ phase = "idle"
    /\ \E path \in Paths :
          /\ req' = Request("handlerKey", path, NoURL, << >>, << >>)
          /\ resp' = Response(NoErr, "key", handlerKey(path))
    /\ phase' = "done"
    /\ UNCHANGED <<handlers, oracle, calls, resolved, idCalls>>

\* The state of a walk over a path with splitPath: the index it started
\* at, the index the next call starts at and the elements returned so far.
Walk(start, index, elems) == [start |-> start, index |-> index, elems |-> elems]

\* A caller starts to walk over a path from some index of it.
StartSplitPath ==
    /\ phase = "idle"
    /\ \E path \in Paths : \E start \in 0..Len(path) :
          /\ req' = Request("splitPath", path, NoURL, << >>, << >>)
          /\ resp' = Response(NoErr, "walk", Walk(start, start, << >>))
    /\ phase' = "walking"
    /\ UNCHANGED <<handlers, oracle, calls, resolved, idCalls>>

\* The caller calls splitPath from the index the previous call returned.
StepSplitPath ==
    /\ phase = "walking"
    /\ resp.body.index < Len(req.path)
    /\ resp' = [resp EXCEPT !.body =
                    Walk(@.start, splitPath(req.path, @.index).nextIndex,
                         Append(@.elems, splitPath(req.path, @.index).elem))]
    /\ UNCHANGED <<handlers, phase, req, oracle, calls, resolved, idCalls>>

\* The walk is at the end of the path.
EndSplitPath ==
    /\ phase = "walking"
    /\ resp.body.index >= Len(req.path)
    /\ phase' = "done"
    /\ UNCHANGED <<handlers, req, oracle, resp, calls, resolved, idCalls>>

\* The elements of the paths splitId is applied to: an owner, a known
\* series, a name, the name of an endpoint and the empty element.
IdElems == {<<"~", "b", "o", "b">>, S_trusty, S_wordpress, S_meta, S_empty}

\* The elements joined by "/".
RECURSIVE JoinSlash(_)
JoinSlash(elems) ==
    IF elems = << >> THEN << >>
    ELSE IF Len(elems) = 1 THEN elems[1]
    ELSE elems[1] \o <<Slash>> \o JoinSlash(Tail(elems))

\* The paths splitId is applied to.
ElemPaths == {<<Slash>> \o JoinSlash(elems) : elems \in SeqsUpTo(IdElems, MaxElems)}

\* A call of splitId(path).
CallSplitId ==
    /\ phase = "idle"
    /\ \E path \in ElemPaths :
          /\ req' = Request("splitId", path, NoURL, << >>, << >>)
          /\ resp' = Response(splitId(path).err, "split",
                               [url |-> splitId(path).url, rest |-> splitId(path).rest])
    /\ phase' = "done"
    /\ UNCHANGED <<handlers, oracle, calls, resolved, idCalls>>

NextPaths ==
    \/ CallHandlerKey
    \/ CallSplitId
    \/ StartSplitPath
    \/ StepSplitPath
    \/ EndSplitPath
    \/ Finish

\* The path functions read no handler: one registry is enough for them.
InitPaths == Init /\ handlers = RegLeaf

SpecPaths == InitPaths /\ [][NextPaths]_vars

----------------------------------------------------------------------------
(* Properties.                                                             *)

\* A direct call of GetMetadata has returned.
GetMetadataReturned == phase = "done" /\ req.op = "GetMetadata"

\* The include has a handler registered under its handler key.
Recognized(include) == handlerKey(include).key \in DOMAIN handlers.Meta

\* The handler of a recognized include, and its grouping key.
FacetOf(include) == handlers.Meta[handlerKey(include).key]
GroupingKeyOf(include) == FacetOf(include).Key

\* What the handler of the include answers for id: "data", "empty", "nil"
\* or "typednil".
AnswerFor(id, include) ==
    LET cell == <<id, FacetOf(include).name, handlerKey(include).rest>>
    IN  IF cell \in DOMAIN oracle.data THEN oracle.data[cell] ELSE "data"

NullAnswers == {"nil", "typednil"}

\* The includes of the request that belong to the group of the given key,
\* in the order they were requested in.
IncludesOfGroup(key) == SelectSeq(req.includes, LAMBDA inc : GroupingKeyOf(inc) = key)

\* The invocations of Handle made on the group of the given key.
CallsOfGroup(key) == {k \in DOMAIN calls : calls[k].recv.Key = key}

\* C1: in a GetMetadata call whose includes are all recognized and whose
\* groups all succeed, Handle is invoked exactly once for each distinct
\* grouping key among the includes, and not at all otherwise.
C1_OneHandlePerGroup ==
    ( /\ GetMetadataReturned
      /\ \A inc \in Range(req.includes) : Recognized(inc)
      /\ \A inc \in Range(req.includes) : <<req.id, GroupingKeyOf(inc)>> \notin oracle.fail )
    => /\ Len(calls) = Cardinality({GroupingKeyOf(inc) : inc \in Range(req.includes)})
       /\ \A inc \in Range(req.includes) :
             Cardinality(CallsOfGroup(GroupingKeyOf(inc))) = 1

\* Two includes that share a grouping key, and one of another group between
\* them: two invocations for three includes.
C1_Witness ==
    /\ GetMetadataReturned
    /\ handlers = RegLeaf
    /\ req.includes = <<S_size, Join(S_related, S_provides), S_hash>>
    /\ oracle = NoOracle
    /\ Len(calls) = 2

\* C2: if the batch operation of a group fails, GetMetadata returns that
\* error and no mapping: neither results of the failing group nor results
\* of the groups handled before it.
C2_GroupFailureAtomic ==
    ( /\ GetMetadataReturned
      /\ \E k \in DOMAIN calls : <<calls[k].id, calls[k].recv.Key>> \in oracle.fail )
    => /\ resp.err = [msg |-> "backend failure", arg |-> << >>]
       /\ resp.kind = "none"
       /\ resp.body = << >>

\* The second group fails after the first one returned data.
C2_Witness ==
    /\ GetMetadataReturned
    /\ Len(calls) = 2
    /\ <<calls[1].id, calls[1].recv.Key>> \notin oracle.fail
    /\ <<calls[2].id, calls[2].recv.Key>> \in oracle.fail
    /\ oracle.data = << >>
    /\ resp.err.msg = "backend failure"

\* C3: if an include has no handler registered under its handler key,
\* GetMetadata fails with 'unrecognized metadata name' quoting the include
\* string as it was given (the first such include), and returns no mapping,
\* whatever the other includes are and wherever the include is in the list.
C3_UnrecognizedFailsCall ==
    ( /\ GetMetadataReturned
      /\ \E k \in DOMAIN req.includes : ~Recognized(req.includes[k]) )
    => LET first == CHOOSE k \in DOMAIN req.includes :
                        /\ ~Recognized(req.includes[k])
                        /\ \A m \in 1..(k - 1) : Recognized(req.includes[m])
       IN  /\ resp.err = [msg |-> "unrecognized metadata name %q",
                          arg |-> req.includes[first]]
           /\ resp.kind = "none"
           /\ resp.body = << >>

\* The unrecognized include is the last one, after two valid ones, and is
\* not its own handler key.
C3_Witness ==
    /\ GetMetadataReturned
    /\ handlers = RegLeaf
    /\ req.includes = <<S_size, S_hash, Join(S_size, <<"x">>)>>
    /\ resp.err.arg = Join(S_size, <<"x">>)

\* C4: a facet whose result is null is absent from the mapping GetMetadata
\* returns: every value of the mapping is non-nil, and an include whose
\* handler answers nil (typed or not) is no key of it.
C4_NullOmitted ==
    (GetMetadataReturned /\ resp.kind = "map")
    => /\ \A inc \in DOMAIN resp.body :
             resp.body[inc].kind # "nil" /\ ~resp.body[inc].isNil
       /\ \A inc \in Range(req.includes) :
             AnswerFor(req.id, inc) \in NullAnswers => inc \notin DOMAIN resp.body

\* A nil map for one include, data for another.
C4_Witness ==
    /\ GetMetadataReturned
    /\ resp.kind = "map"
    /\ req.includes = <<Join(S_related, S_provides), S_size>>
    /\ AnswerFor(req.id, Join(S_related, S_provides)) = "typednil"
    /\ DOMAIN resp.body = {S_size}

\* C5: the mapping GetMetadata returns is keyed by the include strings as
\* given: its keys are exactly the includes with a non-null result, and
\* each entry holds the result of its own handler for its own sub-path.
C5_KeyedByInclude ==
    (GetMetadataReturned /\ resp.kind = "map")
    => /\ DOMAIN resp.body =
             {inc \in Range(req.includes) : AnswerFor(req.id, inc) \notin NullAnswers}
       /\ \A inc \in DOMAIN resp.body :
             /\ resp.body[inc].tag[1] = FacetOf(inc).name
             /\ resp.body[inc].tag[2] = req.id
             /\ resp.body[inc].tag[3] = handlerKey(inc).rest

\* Two sub-paths under one handler key are two entries.
C5_Witness ==
    /\ GetMetadataReturned
    /\ resp.kind = "map"
    /\ DOMAIN resp.body = {Join(S_related, S_provides), Join(S_related, S_requires)}
    /\ resp.body[Join(S_related, S_provides)].tag[3] = <<Slash>> \o S_provides
    /\ resp.body[Join(S_related, S_requires)].tag[3] = <<Slash>> \o S_requires

\* C6: the handlers and the sub-paths of a group are passed to Handle in
\* the order their includes were requested in, and the i-th result of the
\* group is stored under the i-th include of the group.
C6_GroupOrder ==
    GetMetadataReturned
    => /\ \A k \in DOMAIN calls :
             LET gi == IncludesOfGroup(calls[k].recv.Key)
             IN  /\ Len(calls[k].hs) = Len(gi)
                 /\ Len(calls[k].paths) = Len(gi)
                 /\ \A i \in DOMAIN gi :
                       /\ calls[k].hs[i] = FacetOf(gi[i])
                       /\ calls[k].paths[i] = handlerKey(gi[i]).rest
       /\ resp.kind = "map" =>
             \A inc \in DOMAIN resp.body :
                 LET gi == IncludesOfGroup(GroupingKeyOf(inc))
                 IN  \E i \in DOMAIN gi : gi[i] = inc /\ resp.body[inc].tag[4] = i

\* The groups are interleaved: "hash" is the third include and the second
\* of its group.
C6_Witness ==
    /\ GetMetadataReturned
    /\ req.includes = <<S_size, Join(S_related, S_provides), S_hash>>
    /\ resp.kind = "map"
    /\ S_hash \in DOMAIN resp.body
    /\ resp.body[S_hash].tag[4] = 2
    /\ resp.body[S_size].tag[4] = 1

\* A request for meta/any on the id "wordpress", which resolveURL resolved,
\* has been served.
MetaAnyServed ==
    /\ phase = "done"
    /\ req.op = "ServeIds"
    /\ req.path = AnyPath
    /\ oracle.resolve = << >>

\* The registry holds handlers of the grouping key "blob" under both keys.
BlobFacets(sizeKey, hashKey) ==
    /\ {sizeKey, hashKey} \subseteq DOMAIN handlers.Meta
    /\ handlers.Meta[sizeKey].Key = "blob"
    /\ handlers.Meta[hashKey].Key = "blob"

\* One call of the batch operation of the blob group with the sub-paths
\* ["", ""], and a mapping with the keys "size" and "hash".
OneBlobCall ==
    /\ Len(calls) = 1
    /\ calls[1].recv.Key = "blob"
    /\ calls[1].paths = <<S_empty, S_empty>>
    /\ resp.err = [msg |-> "", arg |-> << >>]
    /\ resp.kind = "any"
    /\ DOMAIN resp.body.Meta = {S_size, S_hash}

\* C7, as stated: with the facets registered under "size/" and "hash/",
\* both of the grouping key "blob", meta/any?include=size&include=hash
\* makes one call of the blob group with the sub-paths ["", ""] and returns
\* a mapping with the keys "size" and "hash".
C7_SlashKeysAsStated ==
    ( /\ MetaAnyServed
      /\ BlobFacets(S_size \o <<Slash>>, S_hash \o <<Slash>>)
      /\ req.includes = <<S_size, S_hash>>
      /\ oracle = NoOracle )
    => OneBlobCall

\* C7, amended: with the facets registered under "size" and "hash" (no
\* trailing slash), both of the grouping key "blob",
\* meta/any?include=size&include=hash makes one call of the blob group
\* with the sub-paths ["", ""] and returns a mapping with the keys "size"
\* and "hash".
C7_LeafKeys ==
    ( /\ MetaAnyServed
      /\ BlobFacets(S_size, S_hash)
      /\ req.includes = <<S_size, S_hash>>
      /\ oracle = NoOracle )
    => OneBlobCall

C7_Witness ==
    /\ MetaAnyServed
    /\ BlobFacets(S_size, S_hash)
    /\ req.includes = <<S_size, S_hash>>
    /\ oracle = NoOracle
    /\ Len(calls) = 1
    /\ resp.body.Id = WordpressId

\* A request for <id>/meta/bogus has been served, the id resolved and
\* "bogus" is no registered facet.
MetaBogusServed ==
    /\ phase = "done"
    /\ req.op = "ServeIds"
    /\ \E i \in IdParts : req.path = <<Slash>> \o i \o <<Slash>> \o Join(S_meta, S_bogus)
    /\ Len(resolved) = 1
    /\ resolved[1] \notin DOMAIN oracle.resolve
    /\ S_bogus \notin DOMAIN handlers.Meta
    /\ S_meta \o <<Slash>> \notin DOMAIN handlers.Id

\* C8, as stated: a single-identifier request for meta/bogus, "bogus"
\* being no registered facet, fails with 'unrecognized metadata name
\* "bogus"'.
C8_UnrecognizedAsStated ==
    MetaBogusServed
    => /\ resp.err.msg = "unrecognized metadata name %q"
       /\ resp.err.arg = S_bogus

\* C8, amended: a single-identifier request for meta/bogus, "bogus" being
\* no registered facet, fails with the NotFound error ("not found"), and
\* no handler is invoked.
C8_BogusNotFound ==
    MetaBogusServed
    => /\ resp.err = [msg |-> "not found", arg |-> << >>]
       /\ resp.kind = "none"
       /\ calls = << >>

C8_Witness ==
    /\ MetaBogusServed
    /\ req.path = <<Slash>> \o S_wordpress \o <<Slash>> \o Join(S_meta, S_bogus)
    /\ resp.err.msg = "not found"

\* A bulk request has been served.
BulkServed == phase = "done" /\ req.op = "ServeBulkMeta"

\* The id strings of the request are pairwise distinct and all parse.
DistinctIds ==
    /\ \A a, b \in DOMAIN req.ids : a # b => req.ids[a] # req.ids[b]
    /\ \A a \in DOMAIN req.ids : parseURL(req.ids[a]).err = [msg |-> "", arg |-> << >>]

\* What resolveURL answers for the k-th id of the request.
ResolveAnswer(k) ==
    LET url == parseURL(req.ids[k]).url
    IN  IF url \in DOMAIN oracle.resolve THEN oracle.resolve[url] ELSE "ok"

\* The k-th id of the request as resolveURL leaves it.
ResolvedId(k) == resolveURL(NoOracle, parseURL(req.ids[k]).url).url

\* The path of the request names one registered facet.
FacetPath ==
    /\ handlerKey(req.path).key # S_any
    /\ handlerKey(req.path).key \in DOMAIN handlers.Meta

\* What the facet of the request answers for the k-th id.
FacetAnswer(k) ==
    LET cell == <<ResolvedId(k), handlerKey(req.path).key, handlerKey(req.path).rest>>
    IN  IF cell \in DOMAIN oracle.data THEN oracle.data[cell] ELSE "data"

\* C9: in a bulk request for a facet with N distinct ids of which one fails
\* to resolve with NotFound and the others resolve and have data, the call
\* succeeds and the result has exactly N-1 entries: one for each of the
\* other ids, none for the unresolved one.
C9_UnresolvedOmitted ==
    ( /\ BulkServed
      /\ FacetPath
      /\ DistinctIds
      /\ oracle.fail = {}
      /\ Cardinality({k \in DOMAIN req.ids : ResolveAnswer(k) = "notfound"}) = 1
      /\ \A k \in DOMAIN req.ids :
            ResolveAnswer(k) # "notfound"
            => ResolveAnswer(k) = "ok" /\ FacetAnswer(k) \notin NullAnswers )
    => /\ resp.err = [msg |-> "", arg |-> << >>]
       /\ resp.kind = "bulk"
       /\ Cardinality(DOMAIN resp.body) = Len(req.ids) - 1
       /\ \A k \in DOMAIN req.ids :
             req.ids[k] \in DOMAIN resp.body <=> ResolveAnswer(k) = "ok"

\* Two ids, the first of which does not resolve: one entry.
C9_Witness ==
    /\ BulkServed
    /\ req.path = <<Slash>> \o S_size
    /\ req.ids = <<S_wordpress, S_mysql \o <<"-", "7">> >>
    /\ ResolveAnswer(1) = "notfound"
    /\ resp.kind = "bulk"
    /\ DOMAIN resp.body = {S_mysql \o <<"-", "7">>}

\* C10: in a bulk request for a facet whose result is null for some of the
\* ids (DataNotFound for those ids), all ids resolving and no batch
\* operation failing, the call succeeds, the ids with a null result are
\* omitted and every other id is present with its own result.
C10_DataNotFoundOmitted ==
    ( /\ BulkServed
      /\ FacetPath
      /\ DistinctIds
      /\ oracle.fail = {}
      /\ \A k \in DOMAIN req.ids : ResolveAnswer(k) = "ok"
      /\ \E k \in DOMAIN req.ids : FacetAnswer(k) \in NullAnswers )
    => /\ resp.err = [msg |-> "", arg |-> << >>]
       /\ resp.kind = "bulk"
       /\ DOMAIN resp.body =
             {req.ids[k] : k \in {m \in DOMAIN req.ids : FacetAnswer(m) \notin NullAnswers}}
       /\ \A k \in DOMAIN req.ids :
             FacetAnswer(k) \notin NullAnswers
             => /\ resp.body[req.ids[k]].kind = "value"
                /\ resp.body[req.ids[k]].body.tag[1] = handlerKey(req.path).key
                /\ resp.body[req.ids[k]].body.tag[2] = ResolvedId(k)

\* The facet is null for the first of two ids only.
C10_Witness ==
    /\ BulkServed
    /\ req.path = <<Slash>> \o S_size
    /\ req.ids = <<S_wordpress, S_mysql \o <<"-", "7">> >>
    /\ FacetAnswer(1) = "nil"
    /\ FacetAnswer(2) = "data"
    /\ resp.kind = "bulk"
    /\ DOMAIN resp.body = {S_mysql \o <<"-", "7">>}

\* The handler key and the sub-path of the path of a bulk request.
BulkKey == handlerKey(req.path).key
BulkRest == handlerKey(req.path).rest

\* The k-th id string of the request is a charm or bundle id.
IdParses(k) == parseURL(req.ids[k]).err = [msg |-> "", arg |-> << >>]

\* The error of the metadata of a bulk meta/any request for the resolved
\* id, or no error: the first include without a handler, or else a group
\* whose batch operation fails.
AnyErrorFor(id) ==
    IF \E i \in DOMAIN req.includes : ~Recognized(req.includes[i])
    THEN [msg |-> "unrecognized metadata name %q",
          arg |-> req.includes[CHOOSE i \in DOMAIN req.includes :
                                  /\ ~Recognized(req.includes[i])
                                  /\ \A m \in 1..(i - 1) : Recognized(req.includes[m])]]
    ELSE IF \E inc \in Range(req.includes) : <<id, GroupingKeyOf(inc)>> \in oracle.fail
    THEN [msg |-> "backend failure", arg |-> << >>]
    ELSE [msg |-> "", arg |-> << >>]

\* The error of the metadata of a bulk request for the resolved id, other
\* than "metadata not found", or no error; key is the handler key of the
\* path of the request.
MetaErrorFor(id, key) ==
    IF key = S_empty THEN [msg |-> "", arg |-> << >>]
    ELSE IF key = S_any THEN AnyErrorFor(id)
    ELSE IF key \notin DOMAIN handlers.Meta THEN [msg |-> "not found", arg |-> << >>]
    ELSE IF <<id, handlers.Meta[key].Key>> \in oracle.fail
    THEN [msg |-> "backend failure", arg |-> << >>]
    ELSE [msg |-> "", arg |-> << >>]

\* The failure of the k-th id of a bulk request that is neither a NotFound
\* of resolveURL nor a DataNotFound, or no error; parsed is what the id
\* string parses to.
FatalFor(k, parsed) ==
    IF parsed.err # [msg |-> "", arg |-> << >>]
    THEN [msg |-> "charm URL has invalid form %q", arg |-> req.ids[k]]
    ELSE IF parsed.url \in DOMAIN oracle.resolve
    THEN IF oracle.resolve[parsed.url] = "error"
         THEN [msg |-> "backend failure", arg |-> << >>]
         ELSE [msg |-> "", arg |-> << >>]
    ELSE MetaErrorFor(resolveURL(NoOracle, parsed.url).url, BulkKey)

\* The first such failure among the ids of a bulk request from the k-th on,
\* or no error.
RECURSIVE FirstFatal(_)
FirstFatal(k) ==
    IF k > Len(req.ids) THEN [msg |-> "", arg |-> << >>]
    ELSE LET fatal == FatalFor(k, parseURL(req.ids[k]))
         IN  IF fatal # [msg |-> "", arg |-> << >>]
             THEN fatal
             ELSE FirstFatal(k + 1)

\* C11: in a bulk request, if an id string does not parse, resolveURL fails
\* with an error other than NotFound, the facet is not registered or a
\* handler fails, the request fails with the error of the first such id
\* and returns no result map, whatever the ids before it produced.
C11_BulkFailureFatal ==
    BulkServed
    => LET first == FirstFatal(1)
       IN  first # [msg |-> "", arg |-> << >>]
           => /\ resp.err = first
              /\ resp.kind = "none"

\* The first id has data, the second is no id: no result map.
C11_Witness ==
    /\ BulkServed
    /\ req.path = <<Slash>> \o S_size
    /\ req.ids = <<S_wordpress, <<"~">> >>
    /\ handlers = RegLeaf
    /\ oracle = [data |-> << >>, fail |-> {}, resolve |-> << >>]
    /\ Len(calls) = 1
    /\ resp.err.msg = "charm URL has invalid form %q"
    /\ resp.kind = "none"

\* The k-th id of a bulk request parses, resolves and has metadata: a
\* facet that is null for it is the one case in which it has none.
HasMetadata(k) ==
    /\ IdParses(k)
    /\ ResolveAnswer(k) = "ok"
    /\ (BulkKey \notin {S_empty, S_any} => FacetAnswer(k) \notin NullAnswers)

\* The entry is the metadata of the identifier that url resolves to.
MetadataOf(entry, url) ==
    CASE entry.kind = "value" -> entry.body.tag[2] = url
      [] entry.kind = "any"   -> entry.body.Id = url
      [] entry.kind = "names" -> TRUE
      [] OTHER                -> FALSE

\* C12: the result of a bulk request that succeeds maps the id strings as
\* they were sent, and not the resolved ids, to the metadata of the id each
\* string resolves to; its keys are exactly the id strings that resolved
\* and had data.
C12_KeyedByIdString ==
    (BulkServed /\ resp.kind = "bulk")
    => /\ DOMAIN resp.body = {req.ids[k] : k \in {m \in DOMAIN req.ids : HasMetadata(m)}}
       /\ \A k \in DOMAIN req.ids :
             HasMetadata(k) => MetadataOf(resp.body[req.ids[k]], ResolvedId(k))

\* "wordpress" is a key of the result, as sent; what it maps to is the
\* metadata of the id it resolves to, trusty/wordpress-0.
C12_Witness ==
    /\ BulkServed
    /\ req.path = <<Slash>> \o S_size
    /\ req.ids = <<S_wordpress, S_mysql \o <<"-", "7">> >>
    /\ resp.kind = "bulk"
    /\ DOMAIN resp.body = {S_wordpress, S_mysql \o <<"-", "7">>}
    /\ resp.body[S_wordpress].body.tag[2] = [user |-> << >>, series |-> S_trusty,
                                             name |-> S_wordpress, rev |-> 0]

\* The k-th and the m-th id string of the request resolve to one id.
SameIdentifier(k, m) ==
    /\ IdParses(k)
    /\ IdParses(m)
    /\ ResolvedId(k) = ResolvedId(m)

\* C13, as stated: two id strings that resolve to the same identifier make
\* a single entry of the result, with the result of the later one.
C13_CanonicalCollideAsStated ==
    ( /\ BulkServed
      /\ resp.kind = "bulk"
      /\ Len(req.ids) = 2
      /\ SameIdentifier(1, 2)
      /\ HasMetadata(1)
      /\ HasMetadata(2) )
    => /\ Cardinality(DOMAIN resp.body) = 1
       /\ \A id \in DOMAIN resp.body : resp.body[id].at = 2

\* C13, amended: two id strings that resolve to the same identifier make a
\* single entry of the result only if they are the same string, and the
\* entry is then the one the later occurrence stored; two different
\* strings for one identifier make two entries.
C13_SameStringCollides ==
    ( /\ BulkServed
      /\ resp.kind = "bulk"
      /\ Len(req.ids) = 2
      /\ SameIdentifier(1, 2)
      /\ HasMetadata(1)
      /\ HasMetadata(2) )
    => IF req.ids[1] = req.ids[2]
       THEN /\ DOMAIN resp.body = {req.ids[2]}
            /\ resp.body[req.ids[2]].at = 2
       ELSE /\ DOMAIN resp.body = {req.ids[1], req.ids[2]}
            /\ resp.body[req.ids[1]].at = 1
            /\ resp.body[req.ids[2]].at = 2

\* The same id string twice: one entry, stored by the second occurrence
\* after the facet's handler was invoked for both.
C13_Witness ==
    /\ BulkServed
    /\ req.path = <<Slash>> \o S_size
    /\ req.ids = <<S_wordpress, S_wordpress>>
    /\ resp.kind = "bulk"
    /\ Len(calls) = 2
    /\ DOMAIN resp.body = {S_wordpress}
    /\ resp.body[S_wordpress].at = 2

\* A request for <id>/meta, with or without a trailing slash, has been
\* served, the id resolved and "meta" is no identifier action.
MetaBareServed ==
    /\ phase = "done"
    /\ req.op = "ServeIds"
    /\ \E i \in IdParts :
          req.path \in {<<Slash>> \o Join(i, S_meta), <<Slash>> \o Join(i, S_meta) \o <<Slash>>}
    /\ Len(resolved) = 1
    /\ resolved[1] \notin DOMAIN oracle.resolve
    /\ S_meta \notin DOMAIN handlers.Id

\* The number of times the name occurs in the list of names.
Occurrences(names, name) == Cardinality({k \in DOMAIN names : names[k] = name})

\* C14: a request for meta with no sub-path on a resolvable id returns the
\* names of the registered facets, each without its trailing slash, in
\* ascending order, with one entry for every key of the Meta table (a name
\* registered with and without a slash is listed twice); no handler is
\* invoked.
C14_MetaNames ==
    MetaBareServed
    => /\ resp.err = [msg |-> "", arg |-> << >>]
       /\ resp.kind = "names"
       /\ Len(resp.body) = Cardinality(DOMAIN handlers.Meta)
       /\ \A k \in 1..(Len(resp.body) - 1) : ~StringLess(resp.body[k + 1], resp.body[k])
       /\ \A key \in DOMAIN handlers.Meta :
             Occurrences(resp.body, TrimSuffix(key, <<Slash>>)) =
                Cardinality({other \in DOMAIN handlers.Meta :
                                TrimSuffix(other, <<Slash>>) = TrimSuffix(key, <<Slash>>)})
       /\ calls = << >>

\* Four keys, four names: "hash" is listed for "hash" and for "hash/".
C14_Witness ==
    /\ MetaBareServed
    /\ handlers = RegLeaf
    /\ resp.body = <<S_related, S_hash, S_hash, S_size>>

\* A request that may be rooted at an id has been served, and its id
\* parsed and resolved.
IdServed ==
    /\ phase = "done"
    /\ req.op = "ServeIds"
    /\ Len(resolved) = 1
    /\ resolved[1] \notin DOMAIN oracle.resolve

\* The path of the request after its id, without the trailing slash of the
\* request, and the handler key and remainder of it.
RestOfPath == splitId(TrimSuffix(req.path, <<Slash>>)).rest
KeyOfPath == handlerKey(RestOfPath).key
PathAfterKey == handlerKey(RestOfPath).rest

\* The id of the request as resolveURL leaves it.
IdOfPath == resolveURL(NoOracle, resolved[1]).url

\* C15: a request for a bare id, with no element after the id, yields
\* NotFound, and neither an identifier action nor a facet handler is
\* invoked.
C15_BareIdNotFound ==
    (IdServed /\ RestOfPath \in {S_empty, <<Slash>>})
    => /\ resp.err = [msg |-> "not found", arg |-> << >>]
       /\ resp.kind = "none"
       /\ idCalls = << >>
       /\ calls = << >>

\* The id with a user, and a trailing slash.
C15_Witness ==
    /\ IdServed
    /\ req.path = <<Slash>> \o Join(<<"~", "b", "o", "b">>, S_riak) \o <<Slash>>
    /\ resolved[1].user = <<"b", "o", "b">>
    /\ resp.err.msg = "not found"

DelegatedToMeta ==
    /\ idCalls = << >>
    /\ IF PathAfterKey \in {S_empty, <<Slash>>}
       THEN resp.kind = "names"
       ELSE IF handlerKey(PathAfterKey).key = S_any
       THEN resp.kind = "any" \/ resp.err # [msg |-> "", arg |-> << >>]
       ELSE IF handlerKey(PathAfterKey).key \in DOMAIN handlers.Meta
       THEN /\ Len(calls) = 1
            /\ calls[1].recv = handlers.Meta[handlerKey(PathAfterKey).key]
            /\ calls[1].id = IdOfPath
       ELSE resp.err = [msg |-> "not found", arg |-> << >>] /\ calls = << >>

\* C17: when the handler key is no key of the Id table, the request goes
\* to the metadata engine if the key is "meta" or "meta/", and only then:
\* with any other key it yields NotFound and no handler is invoked.
C17_MetaOrNotFound ==
    (IdServed /\ KeyOfPath # S_empty /\ KeyOfPath \notin DOMAIN handlers.Id)
    => IF KeyOfPath \in {S_meta, S_meta \o <<Slash>>}
       THEN DelegatedToMeta
       ELSE /\ resp.err = [msg |-> "not found", arg |-> << >>]
            /\ resp.kind = "none"
            /\ calls = << >>
            /\ idCalls = << >>

\* "archive/" is no identifier action of the registry: NotFound.
C17_Witness ==
    /\ IdServed
    /\ handlers = RegSlash
    /\ req.path = <<Slash>> \o Join(S_wordpress, Join(S_archive, <<"x">>))
    /\ resp.err.msg = "not found"
    /\ calls = << >>
    /\ idCalls = << >>

\* A request for <id>/meta/<facet>[/<subpath>] has been served: the id
\* resolved, "meta" is no identifier action and the facet is registered.
FacetServed ==
    /\ IdServed
    /\ KeyOfPath \in {S_meta, S_meta \o <<Slash>>}
    /\ KeyOfPath \notin DOMAIN handlers.Id
    /\ handlerKey(PathAfterKey).key # S_any
    /\ handlerKey(PathAfterKey).key \in DOMAIN handlers.Meta

\* The handler of the facet of the request, and the sub-path it is given.
FacetOfPath == handlers.Meta[handlerKey(PathAfterKey).key]
SubPathOfPath == handlerKey(PathAfterKey).rest

\* What the handler of the facet answers for the id of the request.
AnswerOfPath ==
    IF <<IdOfPath, FacetOfPath.name, SubPathOfPath>> \in DOMAIN oracle.data
    THEN oracle.data[<<IdOfPath, FacetOfPath.name, SubPathOfPath>>]
    ELSE "data"

\* C18: in the dispatch of one facet for one id, the handler of the facet
\* is invoked once, with itself as the one handler and with one sub-path;
\* its result is the body of the response as it is, not an entry of a
\* mapping, and if the result is null the request fails with 'metadata
\* not found' instead.
C18_SingleFacet ==
    FacetServed
    => /\ Len(calls) = 1
       /\ calls[1].recv = FacetOfPath
       /\ calls[1].hs = <<FacetOfPath>>
       /\ calls[1].paths = <<SubPathOfPath>>
       /\ calls[1].id = IdOfPath
       /\ IF <<IdOfPath, FacetOfPath.Key>> \in oracle.fail
          THEN resp.err = [msg |-> "backend failure", arg |-> << >>] /\ resp.kind = "none"
          ELSE IF AnswerOfPath \in NullAnswers
          THEN /\ resp.err = [msg |-> "metadata not found", arg |-> << >>]
               /\ resp.kind = "none"
               /\ resp.body = << >>
          ELSE /\ resp.err = [msg |-> "", arg |-> << >>]
               /\ resp.kind = "value"
               /\ resp.body.kind = FacetOfPath.kind
               /\ ~resp.body.isNil
               /\ resp.body.tag = <<FacetOfPath.name, IdOfPath, SubPathOfPath, 1>>

\* The facet "charm-related/" answers a nil map for the sub-path
\* "/provides": 'metadata not found'.
C18_Witness ==
    /\ FacetServed
    /\ req.path = <<Slash>> \o Join(S_wordpress, Join(S_meta, Join(S_related, S_provides)))
    /\ AnswerOfPath = "typednil"
    /\ calls[1].paths = << <<Slash>> \o S_provides >>
    /\ resp.err.msg = "metadata not found"

\* C19, as stated: a facet result that is a zero value, an empty container
\* or a nil is null-equivalent and omitted from the mapping GetMetadata
\* returns.
C19_EmptyOmittedAsStated ==
    (GetMetadataReturned /\ resp.kind = "map")
    => \A inc \in Range(req.includes) :
          AnswerFor(req.id, inc) \in {"empty", "nil", "typednil"}
          => inc \notin DOMAIN resp.body

\* C19, amended: a facet result is null-equivalent, and omitted from the
\* mapping GetMetadata returns, when it is a nil: the untyped nil or a nil
\* map, pointer or slice.  A zero value of another kind and an empty
\* container that is not nil are not: they are entries of the mapping.
C19_OnlyNilOmitted ==
    (GetMetadataReturned /\ resp.kind = "map")
    => \A inc \in Range(req.includes) :
          /\ inc \notin DOMAIN resp.body <=> AnswerFor(req.id, inc) \in {"nil", "typednil"}
          /\ AnswerFor(req.id, inc) = "empty"
             => /\ resp.body[inc].empty
                /\ ~resp.body[inc].isNil
                /\ resp.body[inc].kind = FacetOf(inc).kind

\* An empty map that is not nil: it is an entry of the mapping, next to
\* the size.
C19_Witness ==
    /\ GetMetadataReturned
    /\ resp.kind = "map"
    /\ req.includes = <<Join(S_related, S_provides), S_size>>
    /\ AnswerFor(req.id, Join(S_related, S_provides)) = "empty"
    /\ DOMAIN resp.body = {Join(S_related, S_provides), S_size}
    /\ resp.body[Join(S_related, S_provides)].empty
    /\ ~resp.body[Join(S_related, S_provides)].isNil

\* The position, among the includes of its group, of the last occurrence
\* of the include.
LastInGroup(inc) ==
    CHOOSE i \in DOMAIN IncludesOfGroup(GroupingKeyOf(inc)) :
        /\ IncludesOfGroup(GroupingKeyOf(inc))[i] = inc
        /\ \A m \in DOMAIN IncludesOfGroup(GroupingKeyOf(inc)) :
               IncludesOfGroup(GroupingKeyOf(inc))[m] = inc => m <= i

\* C20: when an include is requested more than once in a GetMetadata call,
\* the mapping has one entry under it, and it holds the result of its
\* last occurrence.
C20_DuplicateLastWins ==
    (GetMetadataReturned /\ resp.kind = "map")
    => \A k, m \in DOMAIN req.includes :
          (k < m /\ req.includes[k] = req.includes[m]
               /\ AnswerFor(req.id, req.includes[k]) \notin NullAnswers)
          => /\ req.includes[k] \in DOMAIN resp.body
             /\ resp.body[req.includes[k]].tag[4] = LastInGroup(req.includes[k])

\* "size" twice around "hash": the entry of "size" is the third result of
\* the group, not the first.
C20_Witness ==
    /\ GetMetadataReturned
    /\ resp.kind = "map"
    /\ req.includes = <<S_size, S_hash, S_size>>
    /\ oracle = [data |-> << >>, fail |-> {}, resolve |-> << >>]
    /\ DOMAIN resp.body = {S_size, S_hash}
    /\ resp.body[S_size].tag[4] = 3

\* What the call of GetMetadata of the request returns when the range over
\* its groups runs in the given order.
ReturnedIn(order) == GetMetadata(handlers, oracle, req.id, req.includes, order)

\* The includes of the request are all recognized and the batch operation
\* of one of their groups fails.
SomeGroupFails ==
    /\ \A inc \in Range(req.includes) : Recognized(inc)
    /\ \E inc \in Range(req.includes) : <<req.id, GroupingKeyOf(inc)>> \in oracle.fail

\* The call returned what r is: the same mapping, or an error and no
\* mapping as r.
SameAsReturned(r) ==
    /\ (r.err = NoErr) = (resp.err = NoErr)
    /\ r.isNil = (resp.kind = "none")
    /\ r.meta = resp.body

\* C21: what GetMetadata returns does not depend on the order in which the
\* groups are processed: for the same includes and the same answers of the
\* handlers, every order yields the mapping that was returned when the call
\* succeeded, and an error and no mapping whenever some group fails.
C21_OrderIndependent ==
    GetMetadataReturned
    => /\ \A order \in Orders(GroupKeys(handlers, req.includes)) :
             SameAsReturned(ReturnedIn(order))
       /\ SomeGroupFails => /\ resp.err # NoErr
                            /\ resp.kind = "none"
                            /\ resp.body = << >>

\* Two groups, taken in the order opposite to the one they were requested
\* in: the mapping holds the results of both.
C21_Witness ==
    /\ GetMetadataReturned
    /\ handlers = RegLeaf
    /\ req.includes = <<S_size, Join(S_related, S_provides)>>
    /\ Len(calls) = 2
    /\ calls[1].recv.Key = "related"
    /\ calls[2].recv.Key = "blob"
    /\ resp.kind = "map"
    /\ DOMAIN resp.body = {S_size, Join(S_related, S_provides)}

\* An HTTP request was served: its URL query holds the "include" and "id"
\* values of the request.
HTTPServed == phase = "done" /\ req.op \in {"ServeIds", "ServeBulkMeta"}

\* C22: in every invocation of Handle made while an HTTP request is served
\* (from GetMetadata for meta/any, from the dispatch of a single facet and
\* from the bulk endpoint), the flags hold all the values of the URL query
\* of the request.
C22_FlagsHoldQueryAsStated ==
    HTTPServed
    => \A k \in DOMAIN calls : calls[k].flags = Flags(req.includes, req.ids)

\* The path serveMeta is given in an HTTP request: what follows "meta".
MetaPathOfRequest == IF req.op = "ServeBulkMeta" THEN req.path ELSE PathAfterKey

\* The invocations of Handle of the request are made by GetMetadata.
FromGetMetadata ==
    \/ req.op = "GetMetadata"
    \/ handlerKey(MetaPathOfRequest).key = S_any

\* What the k-th invocation of Handle is asked for, element by element: the
\* includes of its group in the order they were requested in, or the one
\* facet path of the request.
RequestedOf(k) ==
    IF FromGetMetadata
    THEN IncludesOfGroup(calls[k].recv.Key)
    ELSE <<TrimPrefix(MetaPathOfRequest, <<Slash>>)>>

\* The handler list and the sub-path list of an invocation are non-empty
\* and as long as what it is asked for, every handler has the Key of the
\* receiver and is the handler of the element in its position, and the
\* receiver is the first of them.
HandleShape(call, want) ==
    /\ Len(call.hs) >= 1
    /\ Len(call.paths) = Len(call.hs)
    /\ Len(want) = Len(call.hs)
    /\ call.recv = call.hs[1]
    /\ \A i \in DOMAIN call.hs :
          /\ call.hs[i].Key = call.recv.Key
          /\ call.hs[i] = FacetOf(want[i])

\* Each sub-path of the invocation is the element it is asked for with the
\* key of its handler stripped off the front.
KeysStripped(call, want) ==
    \A i \in DOMAIN call.paths : call.hs[i].name \o call.paths[i] = want[i]

\* Each sub-path of the invocation is what follows the first path element
\* of the element it is asked for: empty under a key without a trailing
\* "/", and starting with the "/" that ends the key otherwise.
FirstElementsStripped(call, want) ==
    \A i \in DOMAIN call.paths :
        /\ TrimSuffix(call.hs[i].name, <<Slash>>) \o call.paths[i] = want[i]
        /\ HasSuffix(call.hs[i].name, <<Slash>>) <=> HasPrefix(call.paths[i], <<Slash>>)

\* The invocation has the shape of HandleShape and its sub-paths are the
\* elements with the keys stripped.
HandleAsStated(call, want) == HandleShape(call, want) /\ KeysStripped(call, want)

\* The invocation has the shape of HandleShape and its sub-paths are the
\* elements with their first path elements stripped.
HandleAsMade(call, want) == HandleShape(call, want) /\ FirstElementsStripped(call, want)

C24_RegistryReadOnly == [][handlers' = handlers]_vars

\* A bulk request that failed in a handler, after the handler was invoked:
\* the registry is the one the router was created with.
C24_Witness ==
    /\ BulkServed
    /\ req.path = <<Slash>> \o S_size
    /\ req.ids = <<S_wordpress>>
    /\ resp.err = [msg |-> "backend failure", arg |-> << >>]
    /\ Len(calls) = 1
    /\ handlers = RegLeaf

\* A call of handlerKey has returned.
HandlerKeyReturned == phase = "done" /\ req.op = "handlerKey"

\* The first element of the path, and what follows it in the path, once
\* the leading "/" of the path is trimmed off.
FirstElement(path) == splitPath(TrimPrefix(path, <<Slash>>), 0).elem
AfterFirstElement(path) ==
    From(TrimPrefix(path, <<Slash>>), splitPath(TrimPrefix(path, <<Slash>>), 0).nextIndex)

\* C25 as stated: for every path, the key handlerKey returns is empty when
\* the path has no first element, and otherwise it is the first element of
\* the path, followed by one "/" if and only if more path remains after it;
\* the key holds no other "/".
C25_KeyIsFirstElementAsStated ==
    HandlerKeyReturned
    => resp.body.key =
           IF FirstElement(req.path) = S_empty THEN S_empty
           ELSE IF Len(AfterFirstElement(req.path)) > 1
                THEN FirstElement(req.path) \o <<Slash>>
                ELSE FirstElement(req.path)

\* A walk over a path with splitPath is under way or has ended.
Walking == phase = "walking"
Walked == phase = "done" /\ req.op = "splitPath"

\* The part of the path the walk started at.
WalkedSuffix == From(req.path, resp.body.start)

\* The concatenation of (separator + element) over the elements.
RECURSIVE Rejoin(_)
Rejoin(elems) ==
    IF elems = << >> THEN << >>
    ELSE <<Slash>> \o Head(elems) \o Rejoin(Tail(elems))

\* Every call made so far returned an index greater than the one it started
\* at and none beyond the end, and no element holds a separator.
WalkAdvances ==
    /\ resp.body.index >= resp.body.start + Len(resp.body.elems)
    /\ resp.body.index <= Len(req.path)
    /\ \A k \in DOMAIN resp.body.elems : IndexByte(resp.body.elems[k], Slash) = -1

\* The walk ended at the end of the path, and visited the elements of the
\* suffix between its separators, each once and in order.
WalkVisitsAll ==
    /\ resp.body.index = Len(req.path)
    /\ resp.body.elems =
           IF WalkedSuffix = S_empty THEN << >>
           ELSE SplitSlash(TrimPrefix(WalkedSuffix, <<Slash>>))

\* C26 as stated: for every path, applying splitPath again and again from
\* the index the previous call returned ends at the end of the path, with
\* an index that grows with every call, visits every element once and in
\* order, and the concatenation of (separator + element) over the visited
\* elements is the suffix the walk started at.
C26_RejoinIsSuffixAsStated ==
    /\ (Walking \/ Walked) => WalkAdvances
    /\ Walked => /\ WalkVisitsAll
                 /\ Rejoin(resp.body.elems) = WalkedSuffix

\* C26: for every path, applying splitPath again and again from the index
\* the previous call returned ends at the end of the path, with an index
\* that grows with every call, visits every element once and in order, and
\* the concatenation of (separator + element) over the visited elements is
\* the suffix the walk started at when that suffix is empty or starts with
\* a separator, and that suffix with a separator put before it otherwise.
C26_RejoinIsSeparatedSuffix ==
    /\ (Walking \/ Walked) => WalkAdvances
    /\ Walked => /\ WalkVisitsAll
                 /\ Rejoin(resp.body.elems) =
                        IF WalkedSuffix = S_empty \/ HasPrefix(WalkedSuffix, <<Slash>>)
                        THEN WalkedSuffix
                        ELSE <<Slash>> \o WalkedSuffix

\* A walk from the start of "a//b", which starts with no separator and
\* holds an empty element: three elements, and the path with a separator
\* before it.
C26_Witness ==
    /\ Walked
    /\ req.path = <<"a", Slash, Slash, "b">>
    /\ resp.body.start = 0
    /\ resp.body.elems = << <<"a">>, << >>, <<"b">> >>
    /\ Rejoin(resp.body.elems) = <<Slash>> \o req.path

\* A call of splitId has returned an id.
SplitIdReturned == phase = "done" /\ req.op = "splitId" /\ resp.err = NoErr

\* The number of elements the id takes of the elements of a path: an owner
\* if the first element starts with "~", a series if the next element is a
\* known series, and one element for the name.
IdElemCount(elems) ==
    LET owner  == IF HasPrefix(elems[1], <<"~">>) THEN 1 ELSE 0
        series == IF Len(elems) > owner /\ elems[owner + 1] \in knownSeries
                  THEN 1 ELSE 0
    IN  owner + series + 1

\* The elements of the path that the id takes, joined as they are in the
\* path.
ConsumedOf(path) ==
    LET elems == SplitSlash(path)
        n     == IdElemCount(elems)
    IN  JoinSlash(SubSeq(elems, 1, IF n < Len(elems) THEN n ELSE Len(elems)))

\* C27 as stated: the id splitId returns is made of an owner element if
\* the path starts with one, then a series element if the next element is
\* a known series, then one more element as the name; the id is the parse
\* of exactly those elements, what follows them is the rest, and the
\* elements of the id followed by the rest are the path without its
\* leading "/".
C27_IdIsConsumedElementsAsStated ==
    SplitIdReturned
    => /\ parseURL(ConsumedOf(TrimPrefix(req.path, <<Slash>>))).err = NoErr
       /\ resp.body.url = parseURL(ConsumedOf(TrimPrefix(req.path, <<Slash>>))).url
       /\ ConsumedOf(TrimPrefix(req.path, <<Slash>>)) \o resp.body.rest
              = TrimPrefix(req.path, <<Slash>>)

\* A request that may be rooted at an id has been served.
ServeIdsServed == phase = "done" /\ req.op = "ServeIds"

\* No identifier action and no facet handler was invoked.
NoHandlerInvoked == calls = << >> /\ idCalls = << >>

\* The request failed with the given error.
FailedWith(err) == resp.err = err /\ resp.kind = "none"

\* What serveIds does once the id is split off the path as sp: no call of
\* resolveURL when the id does not parse, and otherwise one call, with the
\* parsed id, whose error ends the request before any handler is invoked
\* and whose result is the id every handler is invoked with.
ResolvedFirst(sp) ==
    IF sp.err # NoErr
    THEN /\ resolved = << >>
         /\ FailedWith(sp.err)
         /\ NoHandlerInvoked
    ELSE /\ resolved = <<sp.url>>
         /\ resolveURL(oracle, sp.url).err # NoErr
                => /\ FailedWith(resolveURL(oracle, sp.url).err)
                   /\ NoHandlerInvoked
         /\ \A k \in DOMAIN idCalls : idCalls[k].id = resolveURL(oracle, sp.url).url
         /\ \A k \in DOMAIN calls : calls[k].id = resolveURL(oracle, sp.url).url

\* C28: in the dispatch rooted at an id, resolveURL is called exactly once,
\* with the parsed id, before the handler key is looked at and before any
\* handler is invoked; when the id does not parse or does not resolve, that
\* error is returned and no identifier action and no facet handler is
\* invoked, also for a bare id, which then fails with the error of
\* resolveURL and not with NotFound.
C28_ResolveFirst ==
    ServeIdsServed => ResolvedFirst(splitId(TrimSuffix(req.path, <<Slash>>)))

\* A bare id that resolveURL fails on: the error is the one of resolveURL.
C28_Witness ==
    /\ ServeIdsServed
    /\ req.path = <<Slash>> \o S_wordpress
    /\ resolved = <<URL(S_empty, S_empty, S_wordpress, -1)>>
    /\ oracle.resolve = (URL(S_empty, S_empty, S_wordpress, -1) :> "error")
    /\ resp.err = [msg |-> "backend failure", arg |-> << >>]
    /\ NoHandlerInvoked

\* An include of the request has no handler.
SomeUnrecognized == \E inc \in Range(req.includes) : ~Recognized(inc)

\* GetMetadata was called and has returned: directly, or by serveMeta for
\* meta/any when "meta/" is no identifier action.
GetMetadataCalled ==
    \/ GetMetadataReturned
    \/ MetaAnyServed /\ (S_meta \o <<Slash>>) \notin DOMAIN handlers.Id

\* C29: GetMetadata looks up every include before it invokes a batch
\* operation: if an include of the list is unrecognized, also when it is
\* the last one and the includes before it are valid, Handle is not invoked
\* at all during the call, be it a direct call or the one of meta/any.
C29_LookupBeforeHandle ==
    (GetMetadataCalled /\ SomeUnrecognized)
    => /\ calls = << >>
       /\ resp.err.msg = "unrecognized metadata name %q"

\* Two valid includes of two groups, then one without a handler: no
\* invocation.
C29_Witness ==
    /\ GetMetadataReturned
    /\ handlers = RegLeaf
    /\ req.includes = <<S_size, Join(S_related, S_provides), S_bogus>>
    /\ calls = << >>
    /\ resp.err.arg = S_bogus

\* The invocation of Handle was made on a group whose batch operation
\* fails.
OnFailingGroup(call) == <<req.id, call.recv.Key>> \in oracle.fail

\* C30: GetMetadata stops at the first group that fails: the failing batch
\* operation is the last one invoked in the call, the ones before it are
\* those of other groups, which succeeded, and so with G groups of which one
\* fails there are between 1 and G invocations of Handle, depending on the
\* order the groups are taken in.
C30_StopsAtFirstFailure ==
    (GetMetadataReturned /\ SomeGroupFails)
    => /\ Len(calls) >= 1
       /\ Len(calls) <= Cardinality(GroupKeys(handlers, req.includes))
       /\ OnFailingGroup(calls[Len(calls)])
       /\ \A k \in 1..(Len(calls) - 1) : ~OnFailingGroup(calls[k])
       /\ \A a, b \in DOMAIN calls : a # b => calls[a].recv.Key # calls[b].recv.Key

\* Two groups of which the second one requested fails: the range took the
\* failing group last, so both batch operations were invoked.
C30_Witness ==
    /\ GetMetadataReturned
    /\ handlers = RegLeaf
    /\ req.includes = <<S_size, Join(S_related, S_provides)>>
    /\ oracle.fail = {<<req.id, "related">>}
    /\ Len(calls) = 2
    /\ OnFailingGroup(calls[2])
    /\ resp.kind = "none"

====
